---- MODULE Spec2Model ----
(***************************************************************************)
(* gtdBot: the per-chat session registry with TTL expiry, the dispatch of  *)
(* inbound messages and callbacks, the item store, and the fixed-time      *)
(* scheduler loop.                                                         *)
(*                                                                         *)
(* Time is the wall clock in minutes.  A time-of-day "HH:MM" is the minute *)
(* of the day (08:00 is 480), a calendar date "YYYY-MM-DD" is the number   *)
(* of the day.  Texts are sequences of tokens, a token being a blank " "   *)
(* or a word; the Cyrillic button labels are written transliterated.       *)
(***************************************************************************)
EXTENDS Integers, Sequences, FiniteSets, TLC

VARIABLES
    now,         \* wall clock, minutes (time.Now().In(tz))
    ChatStates,  \* App.ChatStates: chat -> ChatState or NoState
    items,       \* table items: set of rows [ID, ChatID, Topic, Text]
    nextID,      \* AUTOINCREMENT counter of table items
    kv,          \* table kv, key "chat_id": a text or NoKV
    envChatID,   \* environment variable CHAT_ID (a text, <<>> when unset)
    lastFired,   \* Scheduler.loop's lastFired: key -> date or NoDate
    fireLog,     \* history: <<key, date>> -> how often the key's action ran that date
    held,        \* history: chat -> the topic last set explicitly, while every
                 \* touch since came less than TTL after the activity before it
    sent,        \* messages handed to the transport by the last step
    ev,          \* history: what the last step was and what it decided
    StateMu,     \* App.StateMu: the goroutine that holds the mutex, or NoHolder
    ctxDone,     \* the context of App.run and Scheduler.loop is cancelled
    pc,          \* goroutine -> where it is and the call or update it works on
    regLog,      \* history: the registry calls that returned, in that order
    states,            \* bot.go: the global map states, chat -> State or NoState
    lastRemindersSent, \* bot.go: reminder time -> the date it was last sent, or NoDate
    lastCleanupDate,   \* bot.go: scheduler's local, a date or NoDate
    lastDigestDate,    \* bot.go: scheduler's local, a date or NoDate
    schedNow,          \* bot.go: scheduler's local now, read once per iteration
    sleepUntil,        \* bot.go: the minute time.Sleep(time.Minute) returns at the earliest
    iter,              \* bot.go: the keys a range over states has still to produce
    message,           \* bot.go: handleMessage's msg, the message it works on
    at                 \* bot.go: goroutine -> the statement it is at

\* the variables of the goroutines' positions
conc == <<StateMu, ctxDone, pc, regLog>>

\* the variables of the implementation in bot.go
botgo == <<states, lastRemindersSent, lastCleanupDate, lastDigestDate, schedNow,
           sleepUntil, iter, message, at>>

vars == <<now, ChatStates, items, nextID, kv, envChatID, lastFired, fireLog, held,
          sent, ev, conc, botgo>>

-----------------------------------------------------------------------------
(* Program constants *)

TopicTasks == "tasks"
TopicReminders == "reminders"
TopicShopping == "shopping"
TopicBasket == "basket"

Topics == {TopicTasks, TopicReminders, TopicShopping, TopicBasket}

\* TTL_MINUTES, default "10"; App.TTL = ttlMin * time.Minute
TTL == 10

\* minutes in a calendar day: "15:04" and "2006-01-02" split a time at midnight
MinutesPerDay == 1440

\* Scheduler.morningTime "08:00", wipeTime "03:00", reminderTimes
morningTime == 480
wipeTime == 180
reminderTimes == <<480, 600, 840, 1140, 1380>>

-----------------------------------------------------------------------------
(* Bounds of the model *)

\* number of calendar dates the clock runs through
MaxDays == 2

\* rows the item store ever receives: in the session runs, in the scheduler runs
MaxItems == 2
SchedulerItems == 1

\* the minute at which the session scenarios start (08:20)
SessionStart == 500

Dates == 0 .. (MaxDays - 1)

\* The clock shows only a few minutes; a poll or an event may see any of
\* them, or none.  For the scheduler: the wipe minute 03:00, 08:00 (the
\* minute of the morning digest and of the first reminder broadcast) and,
\* on the first date, the minute after it.
SchedulerInstants ==
    {180, 480, 481} \cup {d * MinutesPerDay + m : d \in Dates \ {0}, m \in {180, 480}}

\* For the sessions: a start and the minutes TTL-1, TTL and TTL+1 after it.
SessionInstants ==
    {SessionStart, SessionStart + TTL - 1, SessionStart + TTL, SessionStart + TTL + 1}

Chats == {7, -12}

NoState == [Topic |-> "none", LastActivity |-> -1]
NoSet == "none"
NoKV == <<"nokv">>
NoDate == -1

-----------------------------------------------------------------------------
(* Texts *)

Blank == " "

\* strings.ToLower on a token
ToLowerTok(w) ==
    CASE w = "Zadachi" -> "zadachi"
      [] w = "NAPOMINANIYA" -> "napominaniya"
      [] w = "Pokupki" -> "pokupki"
      [] w = "Korzina" -> "korzina"
      [] w = "MENU" -> "menu"
      [] w = "Milk" -> "milk"
      [] OTHER -> w

ToLower(t) == [i \in 1 .. Len(t) |-> ToLowerTok(t[i])]

RECURSIVE TrimLeft(_)
TrimLeft(t) == IF t # <<>> /\ Head(t) = Blank THEN TrimLeft(Tail(t)) ELSE t

RECURSIVE TrimRight(_)
TrimRight(t) ==
    IF t # <<>> /\ t[Len(t)] = Blank THEN TrimRight(SubSeq(t, 1, Len(t) - 1)) ELSE t

\* strings.TrimSpace
TrimSpace(t) == TrimRight(TrimLeft(t))

\* isTopicButtonText: [topic, ok]
isTopicButtonText(t) ==
    LET s == TrimSpace(ToLower(t)) IN
    CASE s = <<"zadachi">> -> [topic |-> TopicTasks, ok |-> TRUE]
      [] s = <<"napominaniya">> -> [topic |-> TopicReminders, ok |-> TRUE]
      [] s = <<"pokupki">> -> [topic |-> TopicShopping, ok |-> TRUE]
      [] s = <<"korzina">> -> [topic |-> TopicBasket, ok |-> TRUE]
      [] s = <<"menu">> -> [topic |-> TopicBasket, ok |-> TRUE]
      [] OTHER -> [topic |-> "", ok |-> FALSE]

-----------------------------------------------------------------------------
(* Session registry: each operation maps the registry cs at time t to the  *)
(* registry it leaves; the whole operation runs under StateMu.             *)

GetStateRefresh(cs, chatID, t) ==
    IF cs[chatID] = NoState
    THEN [cs EXCEPT ![chatID] = [Topic |-> TopicBasket, LastActivity |-> t]]
    ELSE [cs EXCEPT ![chatID].LastActivity = t]

\* getState
getState(cs, chatID, t) ==
    IF cs[chatID] = NoState
    THEN [cs EXCEPT ![chatID] = [Topic |-> TopicBasket, LastActivity |-> t]]
    ELSE cs

TouchStateNoRefresh(cs, chatID, t) ==
    IF cs[chatID] = NoState
    THEN [cs EXCEPT ![chatID] = [Topic |-> TopicBasket, LastActivity |-> t]]
    ELSE IF t - cs[chatID].LastActivity > TTL
         THEN [cs EXCEPT ![chatID].Topic = TopicBasket]
         ELSE cs

TouchStateNoExpiry(cs, chatID, t) ==
    IF cs[chatID] = NoState
    THEN [cs EXCEPT ![chatID] = [Topic |-> TopicBasket, LastActivity |-> t]]
    ELSE [cs EXCEPT ![chatID].LastActivity = t]

TouchStateAtLeast(cs, chatID, t) ==
    IF cs[chatID] = NoState
    THEN [cs EXCEPT ![chatID] = [Topic |-> TopicBasket, LastActivity |-> t]]
    ELSE [cs EXCEPT ![chatID] =
            [Topic |-> IF t - cs[chatID].LastActivity >= TTL
                       THEN TopicBasket ELSE cs[chatID].Topic,
             LastActivity |-> t]]

\* touchState
touchState(cs, chatID, t) ==
    IF cs[chatID] = NoState
    THEN [cs EXCEPT ![chatID] = [Topic |-> TopicBasket, LastActivity |-> t]]
    ELSE [cs EXCEPT ![chatID] =
            [Topic |-> IF t - cs[chatID].LastActivity > TTL
                       THEN TopicBasket ELSE cs[chatID].Topic,
             LastActivity |-> t]]

SetTopicEveryChat(cs, chatID, topic, t) ==
    [c \in DOMAIN cs |->
        IF c = chatID \/ cs[c] # NoState THEN [Topic |-> topic, LastActivity |-> t]
        ELSE cs[c]]

SetTopicWithTTL(cs, chatID, topic, t) ==
    IF cs[chatID] # NoState /\ t - cs[chatID].LastActivity > TTL
    THEN [cs EXCEPT ![chatID] = [Topic |-> TopicBasket, LastActivity |-> t]]
    ELSE [cs EXCEPT ![chatID] = [Topic |-> topic, LastActivity |-> t]]

\* setTopic
setTopic(cs, chatID, topic, t) ==
    [cs EXCEPT ![chatID] = [Topic |-> topic, LastActivity |-> t]]

ResetToMenuKeepActivity(cs, chatID, t) ==
    IF cs[chatID] = NoState
    THEN [cs EXCEPT ![chatID] = [Topic |-> TopicBasket, LastActivity |-> t]]
    ELSE [cs EXCEPT ![chatID].Topic = TopicBasket]

ResetToMenuNewStaysEmpty(cs, chatID, t) ==
    IF cs[chatID] = NoState
    THEN [cs EXCEPT ![chatID] = [Topic |-> "", LastActivity |-> t]]
    ELSE [cs EXCEPT ![chatID] = [Topic |-> TopicBasket, LastActivity |-> t]]

\* resetToMenu
resetToMenu(cs, chatID, t) ==
    LET st == IF cs[chatID] = NoState THEN [Topic |-> "", LastActivity |-> 0]
              ELSE cs[chatID]
    IN [cs EXCEPT ![chatID] = [st EXCEPT !.Topic = TopicBasket, !.LastActivity = t]]

-----------------------------------------------------------------------------
(* Numbers as text *)

DigitChars == <<"0", "1", "2", "3", "4", "5", "6", "7", "8", "9">>

IsDigit(ch) == \E i \in 1 .. 10 : DigitChars[i] = ch

DigitVal(ch) == (CHOOSE i \in 1 .. 10 : DigitChars[i] = ch) - 1

RECURSIVE FormatNat(_)
FormatNat(n) ==
    IF n < 10 THEN <<DigitChars[n + 1]>>
    ELSE FormatNat(n \div 10) \o <<DigitChars[(n % 10) + 1]>>

\* strconv.FormatInt(n, 10), fmt.Sprintf("%d", n)
FormatInt(n) == IF n < 0 THEN <<"-">> \o FormatNat(0 - n) ELSE FormatNat(n)

RECURSIVE DigitsValue(_, _)
DigitsValue(t, acc) ==
    IF t = <<>> THEN acc ELSE DigitsValue(Tail(t), acc * 10 + DigitVal(Head(t)))

AllDigits(t) == \A i \in 1 .. Len(t) : IsDigit(t[i])

\* parseInt64 of the scheduler: [n, ok]
parseInt64(s) ==
    IF s = <<>> THEN [n |-> 0, ok |-> FALSE]
    ELSE LET neg == Head(s) = "-"
             d == IF neg THEN Tail(s) ELSE s
         IN IF ~AllDigits(d) THEN [n |-> 0, ok |-> FALSE]
            ELSE [n |-> IF neg THEN 0 - DigitsValue(d, 0) ELSE DigitsValue(d, 0),
                  ok |-> TRUE]

\* strconv.ParseInt(s, 10, 64): [n, ok]
ParseInt(s) ==
    LET signed == s # <<>> /\ Head(s) \in {"-", "+"}
        d == IF signed THEN Tail(s) ELSE s
    IN IF d = <<>> \/ ~AllDigits(d) THEN [n |-> 0, ok |-> FALSE]
       ELSE [n |-> IF signed /\ Head(s) = "-" THEN 0 - DigitsValue(d, 0)
                   ELSE DigitsValue(d, 0),
             ok |-> TRUE]

-----------------------------------------------------------------------------
(* Item store *)

AddItemMovesOthers(its, id, chatID, topic, text) ==
    {IF r.ChatID = chatID THEN [r EXCEPT !.Topic = topic] ELSE r : r \in its}
        \cup {[ID |-> id, ChatID |-> chatID, Topic |-> topic, Text |-> text]}

AddItemNextRowid(its, id, chatID, topic, text) ==
    its \cup {[ID |-> IF its = {} THEN 1
                      ELSE 1 + (CHOOSE n \in {r.ID : r \in its} : \A r \in its : r.ID <= n),
               ChatID |-> chatID, Topic |-> topic, Text |-> text]}

\* Store.AddItem: the row gets the next AUTOINCREMENT id and status active
\* (created_at is written and never read by the program: it is left out)
AddItem(its, id, chatID, topic, text) ==
    its \cup {[ID |-> id, ChatID |-> chatID, Topic |-> topic, Text |-> text]}

RECURSIVE SortByID(_)
SortByID(S) ==
    IF S = {} THEN <<>>
    ELSE LET r == CHOOSE x \in S : \A y \in S : x.ID <= y.ID
         IN <<r>> \o SortByID(S \ {r})

\* Store.ListActive: topic "" lists every topic; ORDER BY id ASC
ListActive(its, chatID, topic) ==
    SortByID({r \in its : r.ChatID = chatID /\ (topic = "" \/ r.Topic = topic)})

DeleteItemOrOldest(its, chatID, id) ==
    IF \E r \in its : r.ChatID = chatID /\ r.ID = id
    THEN {r \in its : ~(r.ChatID = chatID /\ r.ID = id)}
    ELSE {r \in its : r.ChatID # chatID \/ (\E o \in its : o.ChatID = chatID /\ o.ID < r.ID)}

DeleteItemAnyChat(its, chatID, id) == {r \in its : r.ID # id}

\* Store.DeleteItem
DeleteItem(its, chatID, id) == {r \in its : ~(r.ChatID = chatID /\ r.ID = id)}

DeleteAllRemindersEveryChat(its, chatID) == {r \in its : r.Topic # TopicReminders}

DeleteAllOfChat(its, chatID) == {r \in its : r.ChatID # chatID}

\* Store.DeleteAllReminders
DeleteAllReminders(its, chatID) ==
    {r \in its : ~(r.ChatID = chatID /\ r.Topic = TopicReminders)}

-----------------------------------------------------------------------------
(* Outbound messages *)

\* one message: the chat it goes to, what it says, the topic it names, the
\* id in its done:<id> button (0 when it has none), the item texts in it
Msg(chatID, kind, topic, id, body) ==
    [chat |-> chatID, kind |-> kind, topic |-> topic, id |-> id, body |-> body]

Note(chatID, kind, topic) == Msg(chatID, kind, topic, 0, <<>>)

\* formatItems: the texts in list order
formatItems(chatID, topic, list) ==
    Msg(chatID, "list", topic, 0, [i \in 1 .. Len(list) |-> list[i].Text])

\* singleReminderKeyboard: the callback data of the button
singleReminderKeyboard(id) == <<"done:">> \o FormatInt(id)

\* sendRemindersOneByOne
sendRemindersOneByOne(chatID, list) ==
    IF list = <<>> THEN <<Note(chatID, "empty", "")>>
    ELSE [i \in 1 .. Len(list) |->
            Msg(chatID, "reminder", TopicReminders, list[i].ID, <<list[i].Text>>)]

\* App.ensureChatID: the kv table it leaves
ensureChatID(chatID, dbOK) ==
    IF TrimSpace(envChatID) # <<>> THEN kv
    ELSE IF dbOK THEN FormatInt(chatID) ELSE kv

-----------------------------------------------------------------------------
(* Dispatch: App.run hands each update to handleMessage or handleCallback. *)
(* A handler's result is the record of what it leaves: the registry cs,    *)
(* the rows its, the id counter nid, the messages out, and for the history *)
(* the branch taken (kind) and the topic it set, stored into or listed.    *)

Res(cs, its, nid, out, kind, topic) ==
    [cs |-> cs, its |-> its, nid |-> nid, out |-> out, kind |-> kind, topic |-> topic]

\* handleMessage, the command switch
handleCommand(m, dbOK) ==
    LET c == m.Chat IN
    CASE m.Command \in {"start", "menu"} ->
            Res(resetToMenu(ChatStates, c, now), items, nextID,
                <<Note(c, "menu_open", TopicBasket)>>, m.Command, TopicBasket)
      [] m.Command = "list" ->
            LET cs == getState(ChatStates, c, now)
                topic == cs[c].Topic
                list == ListActive(items, c, topic)
            IN IF ~dbOK
               THEN Res(cs, items, nextID, <<Note(c, "list_error", "")>>, "list", topic)
               ELSE IF topic = TopicReminders
               THEN Res(cs, items, nextID,
                        <<Note(c, "reminders_header", "")>> \o sendRemindersOneByOne(c, list),
                        "list", topic)
               ELSE Res(cs, items, nextID, <<formatItems(c, topic, list)>>, "list", topic)
      [] OTHER ->
            Res(ChatStates, items, nextID, <<Note(c, "unknown_command", "")>>, "unknown", "")

HandleButtonListBeforeSet(m, topic, dbOK) ==
    LET c == m.Chat
        old == getState(ChatStates, c, now)[c].Topic
        cs == setTopic(ChatStates, c, topic, now)
        list == ListActive(items, c, old)
    IN IF ~dbOK
       THEN Res(cs, items, nextID, <<Note(c, "mode_list_error", topic)>>,
                IF ToLower(TrimSpace(m.Text)) = <<"menu">> THEN "menubtn" ELSE "topic",
                topic)
       ELSE Res(cs, items, nextID,
                <<Note(c, "mode", topic), formatItems(c, old, list)>>,
                IF ToLower(TrimSpace(m.Text)) = <<"menu">> THEN "menubtn" ELSE "topic",
                topic)

\* handleMessage, menu and topic buttons
handleButton(m, topic, dbOK) ==
    LET c == m.Chat
        btn == ToLower(TrimSpace(m.Text))
    IN IF btn = <<"menu">>
       THEN LET cs == resetToMenu(ChatStates, c, now)
                list == ListActive(items, c, TopicBasket)
            IN IF ~dbOK
               THEN Res(cs, items, nextID, <<Note(c, "menu_list_error", TopicBasket)>>,
                        "menubtn", TopicBasket)
               ELSE Res(cs, items, nextID,
                        <<Note(c, "menu_mode", TopicBasket), formatItems(c, TopicBasket, list)>>,
                        "menubtn", TopicBasket)
       ELSE LET cs == setTopic(ChatStates, c, topic, now)
                list == ListActive(items, c, topic)
            IN IF ~dbOK
               THEN Res(cs, items, nextID, <<Note(c, "mode_list_error", topic)>>, "topic", topic)
               ELSE IF topic = TopicReminders
               THEN Res(cs, items, nextID,
                        <<Note(c, "mode", topic)>> \o sendRemindersOneByOne(c, list),
                        "topic", topic)
               ELSE Res(cs, items, nextID,
                        <<Note(c, "mode", topic), formatItems(c, topic, list)>>,
                        "topic", topic)

HandleTextNoTrim(m, dbOK) ==
    LET c == m.Chat
        cs == touchState(ChatStates, c, now)
        topic == cs[c].Topic
    IN IF ~dbOK
       THEN Res(cs, items, nextID, <<Note(c, "write_error", "")>>,
                IF TrimSpace(m.Text) = <<>> THEN "blank" ELSE "text_error", topic)
       ELSE Res(cs, AddItem(items, nextID, c, topic, m.Text), nextID + 1,
                <<Note(c, "added", topic)>>,
                IF TrimSpace(m.Text) = <<>> THEN "blank" ELSE "text", topic)

HandleTextStaleTopic(m, dbOK) ==
    LET c == m.Chat
        cs == touchState(ChatStates, c, now)
        topic == cs[c].Topic
        stale == IF ChatStates[c] = NoState THEN topic ELSE ChatStates[c].Topic
        text == TrimSpace(m.Text)
    IN IF text = <<>>
       THEN Res(cs, items, nextID, <<>>, "blank", topic)
       ELSE IF ~dbOK
       THEN Res(cs, items, nextID, <<Note(c, "write_error", "")>>, "text_error", topic)
       ELSE Res(cs, AddItem(items, nextID, c, stale, text), nextID + 1,
                <<Note(c, "added", topic)>>, "text", topic)

HandleTextAckOnError(m, dbOK) ==
    LET c == m.Chat
        cs == touchState(ChatStates, c, now)
        topic == cs[c].Topic
        text == TrimSpace(m.Text)
    IN IF text = <<>>
       THEN Res(cs, items, nextID, <<>>, "blank", topic)
       ELSE IF ~dbOK
       THEN Res(cs, items, nextID, <<Note(c, "added", topic)>>, "text_error", topic)
       ELSE Res(cs, AddItem(items, nextID, c, topic, text), nextID + 1,
                <<Note(c, "added", topic)>>, "text", topic)

HandleTextBlankSkipsTouch(m, dbOK) ==
    LET c == m.Chat
        cs == touchState(ChatStates, c, now)
        topic == cs[c].Topic
        text == TrimSpace(m.Text)
    IN IF text = <<>>
       THEN Res(ChatStates, items, nextID, <<>>, "blank", "")
       ELSE IF ~dbOK
       THEN Res(cs, items, nextID, <<Note(c, "write_error", "")>>, "text_error", topic)
       ELSE Res(cs, AddItem(items, nextID, c, topic, text), nextID + 1,
                <<Note(c, "added", topic)>>, "text", topic)

\* handleMessage, normal text
handleText(m, dbOK) ==
    LET c == m.Chat
        cs == touchState(ChatStates, c, now)
        topic == cs[c].Topic
        text == TrimSpace(m.Text)
    IN IF text = <<>>
       THEN Res(cs, items, nextID, <<>>, "blank", topic)
       ELSE IF ~dbOK
       THEN Res(cs, items, nextID, <<Note(c, "write_error", "")>>, "text_error", topic)
       ELSE Res(cs, AddItem(items, nextID, c, topic, text), nextID + 1,
                <<Note(c, "added", topic)>>, "text", topic)

\* handleMessage after ensureChatID
handleMessage(m, dbOK) ==
    IF m.IsCommand THEN handleCommand(m, dbOK)
    ELSE IF m.Text = <<>>
    THEN Res(ChatStates, items, nextID, <<Note(m.Chat, "text_only", "")>>, "notext", "")
    ELSE IF isTopicButtonText(m.Text).ok
    THEN handleButton(m, isTopicButtonText(m.Text).topic, dbOK)
    ELSE handleText(m, dbOK)

\* handleCallback after ensureChatID
handleCallback(cq, dbOK) ==
    LET data == TrimSpace(cq.Data) IN
    IF data # <<>> /\ Head(data) = "done:"
    THEN LET id == ParseInt(Tail(data)) IN
         Res(ChatStates,
             IF id.ok /\ dbOK THEN DeleteItem(items, cq.Chat, id.n) ELSE items,
             nextID,
             <<Note(cq.Chat, "answer_deleted", ""), Note(cq.Chat, "edit_deleted", ""),
               Note(cq.Chat, "edit_markup", "")>>,
             "done", "")
    ELSE Res(ChatStates, items, nextID, <<Note(cq.Chat, "answer_empty", "")>>, "callback", "")

\* what the history keeps of a step: the branch, the chat, the topic used,
\* whether the chat had a session and whether its TTL had run out, and the
\* scheduler actions the step ran
Event(kind, chatID, topic, prev) ==
    [kind |-> kind, chat |-> chatID, topic |-> topic,
     existed |-> prev # NoState,
     expired |-> prev # NoState /\ now - prev.LastActivity > TTL,
     fired |-> <<>>]

\* the branches that set a topic explicitly, and those that call touchState
SetKinds == {"start", "menu", "menubtn", "topic"}
TouchKinds == {"text", "text_error", "blank"}

\* the history held after a step of branch kind for a chat whose session was prev
Held(h, kind, topic, prev) ==
    IF kind \in SetKinds THEN topic
    ELSE IF kind \in TouchKinds /\ ~(prev # NoState /\ now - prev.LastActivity < TTL)
    THEN NoSet
    ELSE h

\* App.run receives a message, one of msgs; the store holds at most cap rows
OnMessage(msgs, cap) ==
    \E m \in msgs, dbOK \in BOOLEAN :
        \E r \in {handleMessage(m, dbOK)} :
            /\ r.nid <= cap + 1
            /\ kv' = ensureChatID(m.Chat, dbOK)
            /\ ChatStates' = r.cs
            /\ items' = r.its
            /\ nextID' = r.nid
            /\ sent' = r.out
            /\ held' = [held EXCEPT ![m.Chat] = Held(@, r.kind, r.topic, ChatStates[m.Chat])]
            /\ ev' = Event(r.kind, m.Chat, r.topic, ChatStates[m.Chat])
            /\ UNCHANGED <<botgo, now, envChatID, lastFired, fireLog, conc>>

\* App.run receives a callback query, one of cqs
OnCallback(cqs) ==
    \E cq \in cqs, dbOK \in BOOLEAN :
        \E r \in {handleCallback(cq, dbOK)} :
            /\ kv' = ensureChatID(cq.Chat, dbOK)
            /\ ChatStates' = r.cs
            /\ items' = r.its
            /\ nextID' = r.nid
            /\ sent' = r.out
            /\ ev' = Event(r.kind, cq.Chat, r.topic, ChatStates[cq.Chat])
            /\ UNCHANGED <<botgo, now, envChatID, lastFired, fireLog, held, conc>>

-----------------------------------------------------------------------------
(* Scheduler *)

MorningKey == <<"morning", morningTime>>
WipeKey == <<"wipe", wipeTime>>
ReminderKey(t) == <<"reminders", t>>

Keys == {MorningKey, WipeKey} \cup {ReminderKey(reminderTimes[i]) : i \in 1 .. Len(reminderTimes)}

\* now.Format("15:04") and now.Format("2006-01-02")
HHMM(t) == t % MinutesPerDay
Today(t) == t \div MinutesPerDay

\* Scheduler.targetChatID: [n, ok]
targetChatID ==
    LET e == parseInt64(TrimSpace(envChatID)) IN
    IF e.ok THEN e
    ELSE IF kv # NoKV THEN parseInt64(TrimSpace(kv))
    ELSE [n |-> 0, ok |-> FALSE]

\* an action's result: the rows it leaves, the messages it sends, how it ended
Done(its, out, outcome) == [its |-> its, out |-> out, outcome |-> outcome]

SendMorningDigestDropOnError(its, calOK, sendOK) ==
    LET tc == targetChatID IN
    IF ~tc.ok THEN Done(its, <<>>, "nochat")
    ELSE IF ~calOK THEN Done(its, <<>>, "ok")
    ELSE Done(its, <<Msg(tc.n, "digest", "", 0, <<"agenda">>)>>,
              IF sendOK THEN "ok" ELSE "senderr")

SendMorningDigestAnyway(its, calOK, sendOK) ==
    LET tc == targetChatID IN
    Done(its,
         <<Msg(tc.n, "digest", "", 0,
               IF calOK THEN <<"agenda">> ELSE <<"calendar_error">>)>>,
         IF sendOK THEN "ok" ELSE "senderr")

\* Scheduler.sendMorningDigest
sendMorningDigest(its, calOK, sendOK) ==
    LET tc == targetChatID IN
    IF ~tc.ok THEN Done(its, <<>>, "nochat")
    ELSE Done(its,
              <<Msg(tc.n, "digest", "", 0,
                    IF calOK THEN <<"agenda">> ELSE <<"calendar_error">>)>>,
              IF sendOK THEN "ok" ELSE "senderr")

SendRemindersAggregated(its, dbOK, sendOK) ==
    LET tc == targetChatID IN
    IF ~tc.ok THEN Done(its, <<>>, "nochat")
    ELSE IF ~dbOK THEN Done(its, <<>>, "storeerr")
    ELSE LET list == ListActive(its, tc.n, TopicReminders) IN
         IF list = <<>> THEN Done(its, <<>>, "ok")
         ELSE Done(its,
                   <<Msg(tc.n, "reminder", TopicReminders, list[1].ID,
                         [i \in 1 .. Len(list) |-> list[i].Text])>>,
                   IF sendOK THEN "ok" ELSE "senderr")

\* Scheduler.sendReminders
sendReminders(its, dbOK, sendOK) ==
    LET tc == targetChatID IN
    IF ~tc.ok THEN Done(its, <<>>, "nochat")
    ELSE IF ~dbOK THEN Done(its, <<>>, "storeerr")
    ELSE LET list == ListActive(its, tc.n, TopicReminders) IN
         IF list = <<>> THEN Done(its, <<>>, "ok")
         ELSE Done(its,
                   [i \in 1 .. Len(list) |->
                      Msg(tc.n, "reminder", TopicReminders, list[i].ID, <<list[i].Text>>)],
                   IF sendOK THEN "ok" ELSE "senderr")

WipeRemindersNotifyOnError(its, dbOK, sendOK) ==
    LET tc == targetChatID IN
    IF ~tc.ok THEN Done(its, <<>>, "nochat")
    ELSE IF ~dbOK THEN Done(its, <<Note(tc.n, "wiped", TopicReminders)>>, "storeerr")
    ELSE Done(DeleteAllReminders(its, tc.n),
              <<Note(tc.n, "wiped", TopicReminders)>>,
              IF sendOK THEN "ok" ELSE "senderr")

\* Scheduler.wipeReminders
wipeReminders(its, dbOK, sendOK) ==
    LET tc == targetChatID IN
    IF ~tc.ok THEN Done(its, <<>>, "nochat")
    ELSE IF ~dbOK THEN Done(its, <<>>, "storeerr")
    ELSE Done(DeleteAllReminders(its, tc.n),
              <<Note(tc.n, "wiped", TopicReminders)>>,
              IF sendOK THEN "ok" ELSE "senderr")

DueEveryPoll(lf, key, hhmm, today) == hhmm = key[2]

DueOnceEver(lf, key, hhmm, today) == hhmm = key[2] /\ lf[key] = NoDate

DueLate(lf, key, hhmm, today) == hhmm >= key[2] /\ lf[key] # today

\* the loop's test of one trigger: hhmm == t && lastFired[key] != today
Due(lf, key, hhmm, today) == hhmm = key[2] /\ lf[key] # today

FireCommitOnSuccess(S, key, today, r) ==
    [lf |-> IF r.outcome = "ok" THEN [S.lf EXCEPT ![key] = today] ELSE S.lf,
     its |-> r.its,
     out |-> S.out \o r.out,
     log |-> [S.log EXCEPT ![<<key, today>>] = @ + 1],
     fired |-> Append(S.fired, [key |-> key, outcome |-> r.outcome])]

\* the body of a trigger's if: lastFired[key] = today, then the action (r is
\* what the action does to the rows S.its)
Fire(S, key, today, r) ==
    [lf |-> [S.lf EXCEPT ![key] = today],
     its |-> r.its,
     out |-> S.out \o r.out,
     log |-> [S.log EXCEPT ![<<key, today>>] = @ + 1],
     fired |-> Append(S.fired, [key |-> key, outcome |-> r.outcome])]

\* for _, t := range s.reminderTimes, from index i on
RECURSIVE reminderLoop(_, _, _, _, _, _)
reminderLoop(S, i, hhmm, today, dbOK, sendOK) ==
    IF i > Len(reminderTimes) THEN S
    ELSE LET k == ReminderKey(reminderTimes[i])
             S1 == IF Due(S.lf, k, hhmm, today)
                   THEN Fire(S, k, today, sendReminders(S.its, dbOK, sendOK))
                   ELSE S
         IN reminderLoop(S1, i + 1, hhmm, today, dbOK, sendOK)

TickClockPerTrigger(t, calOK, dbOK, sendOK) ==
    LET today == Today(t)
        S0 == [lf |-> lastFired, its |-> items, out |-> <<>>, log |-> fireLog, fired |-> <<>>]
        S1 == IF Due(S0.lf, MorningKey, HHMM(t), today)
              THEN Fire(S0, MorningKey, today, sendMorningDigest(S0.its, calOK, sendOK))
              ELSE S0
        late == IF S1.fired = <<>> THEN t ELSE t + 1
        S2 == reminderLoop(S1, 1, HHMM(late), today, dbOK, sendOK)
    IN IF Due(S2.lf, WipeKey, HHMM(late), today)
       THEN Fire(S2, WipeKey, today, wipeReminders(S2.its, dbOK, sendOK))
       ELSE S2

\* one iteration of Scheduler.loop on the ticker: morning digest, reminders, wipe
tick(t, calOK, dbOK, sendOK) ==
    LET hhmm == HHMM(t)
        today == Today(t)
        S0 == [lf |-> lastFired, its |-> items, out |-> <<>>, log |-> fireLog, fired |-> <<>>]
        S1 == IF Due(S0.lf, MorningKey, hhmm, today)
              THEN Fire(S0, MorningKey, today, sendMorningDigest(S0.its, calOK, sendOK))
              ELSE S0
        S2 == reminderLoop(S1, 1, hhmm, today, dbOK, sendOK)
    IN IF Due(S2.lf, WipeKey, hhmm, today)
       THEN Fire(S2, WipeKey, today, wipeReminders(S2.its, dbOK, sendOK))
       ELSE S2

\* the ticker fires and the loop body runs to its end
Poll ==
    \E calOK \in BOOLEAN, dbOK \in BOOLEAN, sendOK \in BOOLEAN :
        \E S \in {tick(now, calOK, dbOK, sendOK)} :
            /\ lastFired' = S.lf
            /\ items' = S.its
            /\ sent' = S.out
            /\ fireLog' = S.log
            /\ ev' = [Event("poll", 0, "", NoState) EXCEPT !.fired = S.fired]
            /\ UNCHANGED <<botgo, now, ChatStates, nextID, kv, envChatID, held, conc>>

\* the wall clock moves on to one of the minutes in instants
Tick(instants) ==
    \E t \in instants :
        /\ t > now
        /\ now' = t
        /\ sent' = <<>>
        /\ ev' = Event("tick", 0, "", NoState)
        /\ UNCHANGED <<botgo, ChatStates, items, nextID, kv, envChatID, lastFired, fireLog, held,
                       conc>>

-----------------------------------------------------------------------------
(* Goroutines, statement by statement.  "run" is the goroutine of main in   *)
(* App.run, "loop" the goroutine Scheduler.Start spawns; "other" stands for *)
(* one more execution context that calls the registry, which shows what     *)
(* StateMu is for: the program itself calls the registry from "run" only.   *)
(* A goroutine is at its select, or in a call of a registry operation (at   *)
(* Lock, after Lock, before the write of Topic, before the write of         *)
(* LastActivity, at the deferred Unlock), or in a handler: at ensureChatID  *)
(* and, after the registry call, at the store and transport calls.          *)

NoHolder == "none"

Goroutines == {"run", "loop", "other"}

\* the positions inside a registry operation, between Lock and Unlock
InsideSteps == {"load", "topic", "activity", "unlock"}

\* the positions at which a handler calls the store or the transport
IOSteps == {"ensure", "io"}

RegistryCall(op, chatID, topic) == [op |-> op, chat |-> chatID, topic |-> topic, t |-> 0]

NoCall == RegistryCall("none", 0, "")

Update(kind, msg) == [kind |-> kind, msg |-> msg]

NoUpdate == Update("none", [Chat |-> 0])

AtSelect == [at |-> "select", call |-> NoCall, upd |-> NoUpdate, prev |-> NoState]

\* the registry operation handleMessage calls for message m, if any
registryCallOf(m) ==
    IF m.IsCommand
    THEN CASE m.Command \in {"start", "menu"} -> RegistryCall("resetToMenu", m.Chat, TopicBasket)
           [] m.Command = "list" -> RegistryCall("getState", m.Chat, "")
           [] OTHER -> NoCall
    ELSE IF m.Text = <<>> THEN NoCall
    ELSE IF isTopicButtonText(m.Text).ok
    THEN IF ToLower(TrimSpace(m.Text)) = <<"menu">>
         THEN RegistryCall("resetToMenu", m.Chat, TopicBasket)
         ELSE RegistryCall("setTopic", m.Chat, isTopicButtonText(m.Text).topic)
    ELSE RegistryCall("touchState", m.Chat, "")

LockWithoutWaiting(g) ==
    /\ pc[g].at = "lock"
    /\ StateMu' = g
    /\ pc' = [pc EXCEPT ![g].at = "load"]
    /\ UNCHANGED <<botgo, now, ChatStates, items, nextID, kv, envChatID, lastFired, fireLog, held,
                   sent, ev, ctxDone, regLog>>

\* a.StateMu.Lock(): g goes on when no goroutine holds the mutex
Lock(g) ==
    /\ pc[g].at = "lock"
    /\ StateMu = NoHolder
    /\ StateMu' = g
    /\ pc' = [pc EXCEPT ![g].at = "load"]
    /\ UNCHANGED <<botgo, now, ChatStates, items, nextID, kv, envChatID, lastFired, fireLog, held,
                   sent, ev, ctxDone, regLog>>

\* now := time.Now(); st := a.ChatStates[chatID]; if st == nil { ... }:
\* getState and touchState create the session with the basket topic and
\* return, setTopic and resetToMenu put an empty ChatState{} into the map
Load(g) ==
    LET c == pc[g].call
        creates == c.op \in {"getState", "touchState"}
    IN /\ pc[g].at = "load"
       /\ IF ChatStates[c.chat] = NoState
          THEN /\ ChatStates' = [ChatStates EXCEPT ![c.chat] =
                        IF creates THEN [Topic |-> TopicBasket, LastActivity |-> now]
                        ELSE [Topic |-> "", LastActivity |-> 0]]
               /\ pc' = [pc EXCEPT ![g].call.t = now,
                                   ![g].at = IF creates THEN "unlock" ELSE "topic"]
          ELSE /\ ChatStates' = ChatStates
               /\ pc' = [pc EXCEPT ![g].call.t = now,
                                   ![g].at = IF c.op = "getState" THEN "unlock" ELSE "topic"]
       /\ UNCHANGED <<botgo, now, items, nextID, kv, envChatID, lastFired, fireLog, held,
                      sent, ev, StateMu, ctxDone, regLog>>

\* st.Topic = ...: touchState writes the basket when the TTL has run out,
\* setTopic its argument, resetToMenu the basket
WriteTopic(g) ==
    LET c == pc[g].call
        st == ChatStates[c.chat]
    IN /\ pc[g].at = "topic"
       /\ ChatStates' = [ChatStates EXCEPT ![c.chat].Topic =
                CASE c.op = "touchState" ->
                        IF c.t - st.LastActivity > TTL THEN TopicBasket ELSE st.Topic
                  [] c.op = "setTopic" -> c.topic
                  [] OTHER -> TopicBasket]
       /\ pc' = [pc EXCEPT ![g].at = "activity"]
       /\ UNCHANGED <<botgo, now, items, nextID, kv, envChatID, lastFired, fireLog, held,
                      sent, ev, StateMu, ctxDone, regLog>>

\* st.LastActivity = now
WriteActivity(g) ==
    /\ pc[g].at = "activity"
    /\ ChatStates' = [ChatStates EXCEPT ![pc[g].call.chat].LastActivity = pc[g].call.t]
    /\ pc' = [pc EXCEPT ![g].at = "unlock"]
    /\ UNCHANGED <<botgo, now, items, nextID, kv, envChatID, lastFired, fireLog, held,
                   sent, ev, StateMu, ctxDone, regLog>>

UnlockAfterIO(g) ==
    /\ pc[g].at = "unlock"
    /\ regLog' = Append(regLog, [call |-> pc[g].call, by |-> g])
    /\ pc' = IF pc[g].upd = NoUpdate THEN [pc EXCEPT ![g] = AtSelect]
             ELSE [pc EXCEPT ![g].at = "io"]
    /\ UNCHANGED <<botgo, now, ChatStates, items, nextID, kv, envChatID, lastFired, fireLog, held,
                   sent, ev, StateMu, ctxDone>>

\* defer a.StateMu.Unlock(): the operation returns, to the handler that
\* called it or, a call on its own, to the caller's select
Unlock(g) ==
    /\ pc[g].at = "unlock"
    /\ StateMu' = NoHolder
    /\ regLog' = Append(regLog, [call |-> pc[g].call, by |-> g])
    /\ pc' = IF pc[g].upd = NoUpdate THEN [pc EXCEPT ![g] = AtSelect]
             ELSE [pc EXCEPT ![g].at = "io"]
    /\ UNCHANGED <<botgo, now, ChatStates, items, nextID, kv, envChatID, lastFired, fireLog, held,
                   sent, ev, ctxDone>>

\* one statement of a registry operation
RegistryStep(g) == Lock(g) \/ Load(g) \/ WriteTopic(g) \/ WriteActivity(g) \/ Unlock(g)

\* the registry an operation leaves, the whole operation at once
ApplyCall(cs, c) ==
    CASE c.op = "getState" -> getState(cs, c.chat, c.t)
      [] c.op = "touchState" -> touchState(cs, c.chat, c.t)
      [] c.op = "setTopic" -> setTopic(cs, c.chat, c.topic, c.t)
      [] c.op = "resetToMenu" -> resetToMenu(cs, c.chat, c.t)
      [] OTHER -> cs

\* the registry the calls of log leave when run one after another on cs
RECURSIVE Replay(_, _)
Replay(cs, log) ==
    IF log = <<>> THEN cs ELSE Replay(ApplyCall(cs, Head(log).call), Tail(log))

\* a goroutine at its select calls a registry operation, one of calls,
\* while fewer than cap calls were made
CallRegistry(callers, calls, cap) ==
    \E g \in callers, c \in calls :
        /\ pc[g].at = "select"
        /\ Len(regLog) + Cardinality({h \in Goroutines : pc[h].at # "select"}) < cap
        /\ pc' = [pc EXCEPT ![g] = [at |-> "lock", call |-> c, upd |-> NoUpdate,
                                    prev |-> NoState]]
        /\ UNCHANGED <<botgo, now, ChatStates, items, nextID, kv, envChatID, lastFired, fireLog,
                       held, sent, ev, StateMu, ctxDone, regLog>>

\* App.run: case upd := <-updates, one of upds, while the store holds fewer
\* than cap rows and fewer than calls registry calls were made
Recv(upds, cap, calls) ==
    \E u \in upds :
        /\ pc["run"].at = "select"
        /\ nextID <= cap
        /\ Len(regLog) < calls
        /\ pc' = [pc EXCEPT !["run"] = [at |-> "ensure", call |-> NoCall, upd |-> u,
                                        prev |-> ChatStates[u.msg.Chat]]]
        /\ UNCHANGED <<botgo, now, ChatStates, items, nextID, kv, envChatID, lastFired, fireLog,
                       held, sent, ev, StateMu, ctxDone, regLog>>

\* a.ensureChatID(chatID), then on to the registry operation of the update
Ensure ==
    \E dbOK \in BOOLEAN :
        LET u == pc["run"].upd
            c == IF u.kind = "message" THEN registryCallOf(u.msg) ELSE NoCall
        IN /\ pc["run"].at = "ensure"
           /\ kv' = ensureChatID(u.msg.Chat, dbOK)
           /\ pc' = [pc EXCEPT !["run"].call = c,
                               !["run"].at = IF c = NoCall THEN "io" ELSE "lock"]
           /\ UNCHANGED <<botgo, now, ChatStates, items, nextID, envChatID, lastFired, fireLog,
                          held, sent, ev, StateMu, ctxDone, regLog>>

\* the store and transport calls of the handler, after its registry
\* operation returned; the handler returns to the select of App.run
Finish ==
    \E dbOK \in BOOLEAN :
        LET u == pc["run"].upd
            r == IF u.kind = "message" THEN handleMessage(u.msg, dbOK)
                 ELSE handleCallback(u.msg, dbOK)
        IN /\ pc["run"].at = "io"
           /\ items' = r.its
           /\ nextID' = r.nid
           /\ sent' = r.out
           /\ held' = IF u.kind = "message"
                      THEN [held EXCEPT ![u.msg.Chat] = Held(@, r.kind, r.topic, pc["run"].prev)]
                      ELSE held
           /\ ev' = Event(r.kind, u.msg.Chat, r.topic, pc["run"].prev)
           /\ pc' = [pc EXCEPT !["run"] = AtSelect]
           /\ UNCHANGED <<botgo, now, ChatStates, kv, envChatID, lastFired, fireLog, StateMu,
                          ctxDone, regLog>>

\* the owner of the context cancels it
Cancel ==
    /\ ~ctxDone
    /\ ctxDone' = TRUE
    /\ UNCHANGED <<botgo, now, ChatStates, items, nextID, kv, envChatID, lastFired, fireLog, held,
                   sent, ev, StateMu, pc, regLog>>

ReturnAtOnce(g) ==
    /\ pc[g].at # "returned"
    /\ ctxDone
    /\ pc' = [pc EXCEPT ![g].at = "returned"]
    /\ UNCHANGED <<botgo, now, ChatStates, items, nextID, kv, envChatID, lastFired, fireLog, held,
                   sent, ev, StateMu, ctxDone, regLog>>

\* case <-ctx.Done(): return, of App.run and of Scheduler.loop
Return(g) ==
    /\ pc[g].at = "select"
    /\ ctxDone
    /\ pc' = [pc EXCEPT ![g].at = "returned"]
    /\ UNCHANGED <<botgo, now, ChatStates, items, nextID, kv, envChatID, lastFired, fireLog, held,
                   sent, ev, StateMu, ctxDone, regLog>>

-----------------------------------------------------------------------------

(* The program, over two days of the scheduler's minutes.  One chat        *)
(* switches to the reminders topic and writes; CHAT_ID is set or not.      *)

TextMessages(chats, texts) ==
    [Chat : chats, IsCommand : {FALSE}, Command : {""}, Text : texts]

CommandMessages(chats, commands) ==
    [Chat : chats, IsCommand : {TRUE}, Command : commands, Text : {<<>>}]

SchedulerMessages == TextMessages({7}, {<<"NAPOMINANIYA">>, <<"Milk">>})

SchedulerCallbacks == [Chat : {7}, Data : {singleReminderKeyboard(1)}]

\* the state after initApp and NewScheduler, at minute t with CHAT_ID one of envs
Start(t, envs) ==
    /\ now = t
    /\ ChatStates = [c \in Chats |-> NoState]
    /\ items = {}
    /\ nextID = 1
    /\ kv = NoKV
    /\ envChatID \in envs
    /\ lastFired = [k \in Keys |-> NoDate]
    /\ fireLog = [x \in Keys \X Dates |-> 0]
    /\ held = [c \in Chats |-> NoSet]
    /\ sent = <<>>
    /\ ev = Event("init", 0, "", NoState)
    /\ StateMu = NoHolder
    /\ ctxDone = FALSE
    /\ pc = [g \in Goroutines |-> AtSelect]
    /\ regLog = <<>>
    /\ states = [c \in Chats |-> NoState]
    /\ lastRemindersSent = [i \in 1 .. Len(reminderTimes) |-> NoDate]
    /\ lastCleanupDate = NoDate
    /\ lastDigestDate = NoDate
    /\ schedNow = t
    /\ sleepUntil = t
    /\ iter = {}
    /\ message = [Chat |-> 0, Topic |-> "", At |-> t]
    /\ at = [main |-> "updates", scheduler |-> "now"]

Init == Start(180, {<<>>, <<"7">>})

Next ==
    \/ Tick(SchedulerInstants)
    \/ Poll
    \/ OnMessage(SchedulerMessages, SchedulerItems)
    \/ OnCallback(SchedulerCallbacks)

Spec == Init /\ [][Next]_vars

-----------------------------------------------------------------------------
(* The program over the minutes around a TTL, when no trigger is due: one  *)
(* chat sends every kind of message.                                       *)

SessionCommands == {"start", "menu", "list", "help"}

SessionTexts ==
    { <<>>, <<Blank>>, <<"Milk">>, <<Blank, "Milk">>,
      <<"Zadachi">>, <<"NAPOMINANIYA">>, <<"pokupki">>, <<"Korzina", Blank>>,
      <<"MENU">> }

SessionMessages ==
    CommandMessages({7}, SessionCommands) \cup TextMessages({7}, SessionTexts)

SessionCallbacks == [Chat : {7}, Data : {singleReminderKeyboard(1), <<"noop">>}]

InitSession == Start(SessionStart, {<<>>})

NextSession ==
    \/ Tick(SessionInstants)
    \/ Poll
    \/ OnMessage(SessionMessages, MaxItems)
    \/ OnCallback(SessionCallbacks)

SpecSession == InitSession /\ [][NextSession]_vars

-----------------------------------------------------------------------------
(* The scenario of one chat that picks a topic in the first minute and     *)
(* writes free text in the later ones.                                     *)

ScenarioMessages ==
    IF now = SessionStart
    THEN TextMessages({7}, {<<"Zadachi">>, <<"pokupki">>})
    ELSE TextMessages({7}, {<<"Milk">>, <<Blank>>})

NextScenario ==
    \/ Tick(SessionInstants)
    \/ Poll
    \/ OnMessage(ScenarioMessages, MaxItems)
    \/ OnCallback(SessionCallbacks)

SpecScenario == InitSession /\ [][NextScenario]_vars

-----------------------------------------------------------------------------
(* The reminders of two chats, CHAT_ID naming one of them: the wipe minute  *)
(* 03:00, the broadcast minute 08:00, and the wipe minute of the next date. *)

ReminderInstants == {morningTime, MinutesPerDay + wipeTime}

\* the chat CHAT_ID names writes at any minute, the other one in the first
ReminderMessages ==
    TextMessages(IF now = wipeTime THEN Chats ELSE {7}, {<<"NAPOMINANIYA">>, <<"Milk">>})

InitReminders == Start(wipeTime, {<<"7">>})

NextReminders ==
    \/ Tick(ReminderInstants)
    \/ Poll
    \/ OnMessage(ReminderMessages, MaxItems)
    \/ OnCallback(SchedulerCallbacks)

SpecReminders == InitReminders /\ [][NextReminders]_vars

-----------------------------------------------------------------------------
(* The target chat of the scheduler: CHAT_ID unset, a chat id, or a text    *)
(* that is no number; two chats write and press buttons.                    *)

TargetInstants == {morningTime}

TargetMessages == TextMessages(Chats, {<<"Milk">>})

TargetCallbacks == [Chat : Chats, Data : {singleReminderKeyboard(1)}]

InitTarget == Start(wipeTime, {<<>>, <<"7">>, <<"x">>})

NextTarget ==
    \/ Tick(TargetInstants)
    \/ Poll
    \/ OnMessage(TargetMessages, SchedulerItems)
    \/ OnCallback(TargetCallbacks)

SpecTarget == InitTarget /\ [][NextTarget]_vars

-----------------------------------------------------------------------------
(* Completion buttons: two chats store texts and reminders and press the    *)
(* done buttons of the ids 1 and 2, a button whose id is no number, and a   *)
(* button of another kind.                                                  *)

CompletionData ==
    {singleReminderKeyboard(1), singleReminderKeyboard(2), <<"done:", "x">>, <<"noop">>}

CompletionCallbacks == [Chat : Chats, Data : CompletionData]

InitCompletion == Start(wipeTime, {<<>>})

NextCompletion ==
    \/ Tick(TargetInstants)
    \/ Poll
    \/ OnMessage(ReminderMessages, MaxItems)
    \/ OnCallback(CompletionCallbacks)

SpecCompletion == InitCompletion /\ [][NextCompletion]_vars

-----------------------------------------------------------------------------

(* Registry calls of two execution contexts, statement by statement: each   *)
(* of the four operations, on one chat, before and after its TTL.           *)

\* registry calls made in one run
MaxCalls == 3

Callers == {"run", "other"}

RegistryCalls ==
    { RegistryCall("getState", 7, ""), RegistryCall("touchState", 7, ""),
      RegistryCall("setTopic", 7, TopicTasks), RegistryCall("resetToMenu", 7, TopicBasket) }

RegistryInstants == {SessionStart + TTL + 1}

InitRegistry == Start(SessionStart, {<<>>})

NextRegistry ==
    \/ Tick(RegistryInstants)
    \/ CallRegistry(Callers, RegistryCalls, MaxCalls)
    \/ \E g \in Callers : RegistryStep(g)

SpecRegistry == InitRegistry /\ [][NextRegistry]_vars

-----------------------------------------------------------------------------
(* App.run and Scheduler.loop, statement by statement, with a context that  *)
(* may be cancelled: one chat sends commands, a topic label and a text and  *)
(* presses a done button, all within the minute in which the wipe is due.   *)

DispatchMessages ==
    CommandMessages({7}, {"start", "list"})
        \cup TextMessages({7}, {<<"Milk">>, <<"NAPOMINANIYA">>})

\* registry calls the handlers of one run make
DispatchCalls == MaxCalls - 1

DispatchUpdates ==
    {Update("message", m) : m \in DispatchMessages}
        \cup {Update("callback", cq) : cq \in SchedulerCallbacks}

InitDispatch == Start(wipeTime, {<<>>})

\* the updates of the runs in which the context is cancelled
ShutdownUpdates ==
    {Update("message", m) : m \in SchedulerMessages}
        \cup {Update("callback", cq) : cq \in SchedulerCallbacks}

DispatchStep(upds) ==
    \/ pc["loop"].at = "select" /\ Poll
    \/ Recv(upds, SchedulerItems, DispatchCalls)
    \/ Ensure
    \/ RegistryStep("run")
    \/ Finish
    \/ Cancel
    \/ Return("run")
    \/ Return("loop")

NextDispatch == DispatchStep(DispatchUpdates)

SpecDispatch == InitDispatch /\ [][NextDispatch]_vars

NextShutdown == DispatchStep(ShutdownUpdates)

\* A handler that runs goes on to its end; Go's select takes one of its
\* ready cases at random, so a loop that comes to its select again and
\* again while the context is cancelled takes that case in the end.
Fairness ==
    /\ WF_vars(Ensure \/ RegistryStep("run") \/ Finish)
    /\ SF_vars(Return("run"))
    /\ SF_vars(Return("loop"))

SpecShutdown == InitDispatch /\ [][NextShutdown]_vars /\ Fairness

-----------------------------------------------------------------------------

(* Properties of the scheduler, under Spec *)

\* the keys whose action the last step ran
FiredKeys == {ev.fired[i].key : i \in 1 .. Len(ev.fired)}

\* C1: for every trigger key and every calendar date, the scheduler loop runs
\* the key's action at most once on that date, however many polls see the
\* matching minute.
C1_AtMostOncePerDate == \A k \in Keys, d \in Dates : fireLog[<<k, d>>] <= 1

\* C1, its case: a poll that sees the matching minute of a key already fired
\* today, and runs nothing.
C1_Witness ==
    /\ ev.kind = "poll"
    /\ ev.fired = <<>>
    /\ \E k \in Keys : HHMM(now) = k[2] /\ fireLog[<<k, Today(now)>>] = 1

\* C2: a poll that sees a key's minute on a date later than the one the key
\* last fired on runs the action again, once, and records the new date; the
\* firing record is never cleared, it only ever changes to the current date,
\* in a poll.
C2_FiresAgainOnNewDate ==
    /\ [][ev'.kind = "poll" =>
            \A k \in Keys :
                (HHMM(now) = k[2] /\ lastFired[k] \notin {NoDate, Today(now)}) =>
                    /\ k \in {ev'.fired[i].key : i \in 1 .. Len(ev'.fired)}
                    /\ fireLog'[<<k, Today(now)>>] = 1
                    /\ lastFired'[k] = Today(now)]_vars
    /\ [][\A k \in Keys :
            lastFired'[k] # lastFired[k] =>
                ev'.kind = "poll" /\ lastFired'[k] = Today(now)]_vars

\* C2, its case: a key that fired on the first date and again on the next.
C2_Witness ==
    \E k \in Keys :
        fireLog[<<k, 0>>] = 1 /\ fireLog[<<k, 1>>] = 1 /\ lastFired[k] = 1 /\ k \in FiredKeys

\* C10: the firing record of a key is written in the very poll that runs the
\* key's action, whatever the action's outcome (store error, send error, no
\* target chat), and a poll runs the action of no key whose record already
\* holds today's date: a failed action is not retried that date.
C10_CommittedWhateverTheOutcome ==
    [][ev'.kind = "poll" =>
        \A i \in 1 .. Len(ev'.fired) :
            /\ lastFired[ev'.fired[i].key] # Today(now)
            /\ lastFired'[ev'.fired[i].key] = Today(now)
            /\ fireLog'[<<ev'.fired[i].key, Today(now)>>] = 1]_vars

\* C10, its case: a poll whose action failed on a store error, the record written.
C10_Witness ==
    /\ ev.kind = "poll"
    /\ \E i \in 1 .. Len(ev.fired) :
          /\ ev.fired[i].outcome = "storeerr"
          /\ lastFired[ev.fired[i].key] = Today(now)

-----------------------------------------------------------------------------
(* Properties of the session registry, under SpecSession *)

\* C3: touchState on an existing session makes the topic the basket (inbox)
\* exactly when now - LastActivity > TTL and otherwise keeps it, and sets
\* LastActivity to now; so a topic set explicitly stays while every touch
\* comes less than TTL after the activity before it.
C3_TouchAppliesTTL ==
    /\ [][(ev'.kind \in TouchKinds /\ ChatStates[ev'.chat] # NoState) =>
            ChatStates'[ev'.chat] =
                [Topic |-> IF now - ChatStates[ev'.chat].LastActivity > TTL
                           THEN TopicBasket ELSE ChatStates[ev'.chat].Topic,
                 LastActivity |-> now]]_vars
    /\ [](\A c \in Chats : held[c] # NoSet => ChatStates[c].Topic = held[c])

\* C3, its case: a touch TTL-1 minutes after the topic was set, the topic kept.
C3_Witness ==
    /\ ev.kind \in TouchKinds
    /\ ev.existed
    /\ now = SessionStart + TTL - 1
    /\ held[ev.chat] = TopicTasks
    /\ ChatStates[ev.chat] = [Topic |-> TopicTasks, LastActivity |-> now]

\* C4 as claimed: a touch at least TTL after the last activity, a gap of
\* exactly TTL included, leaves the basket (inbox) as the topic.
C4_Original ==
    [][(ev'.kind \in TouchKinds /\ ChatStates[ev'.chat] # NoState
            /\ now - ChatStates[ev'.chat].LastActivity >= TTL) =>
        ChatStates'[ev'.chat].Topic = TopicBasket]_vars

\* C4 as amended: a touch more than TTL after the last activity leaves the
\* basket (inbox) as the topic whatever was set before; a touch exactly TTL
\* after it keeps the topic.
C4_TouchAfterTTL ==
    [][(ev'.kind \in TouchKinds /\ ChatStates[ev'.chat] # NoState) =>
        /\ now - ChatStates[ev'.chat].LastActivity > TTL =>
              ChatStates'[ev'.chat].Topic = TopicBasket
        /\ now - ChatStates[ev'.chat].LastActivity = TTL =>
              ChatStates'[ev'.chat].Topic = ChatStates[ev'.chat].Topic]_vars

\* C4, its case: a touch of a session whose TTL had run out.
C4_Witness ==
    /\ ev.kind \in TouchKinds
    /\ ev.expired
    /\ ChatStates[ev.chat] = [Topic |-> TopicBasket, LastActivity |-> now]

\* C6: setTopic leaves the session with the given topic and LastActivity =
\* now, whether or not the session existed and however stale it was.
C6_SetTopicUnconditional ==
    ev.kind = "topic" =>
        /\ ev.topic \in Topics
        /\ ChatStates[ev.chat] = [Topic |-> ev.topic, LastActivity |-> now]

\* C6, its case: a topic set on a session whose TTL had run out.
C6_Witness ==
    /\ ev.kind = "topic"
    /\ ev.expired
    /\ ChatStates[ev.chat].Topic = TopicTasks

\* C7: getState returns an existing session unchanged, creates a missing one
\* with the basket (inbox) as topic and LastActivity = now, and leaves a
\* session for the chat.
C7_GetStateReadsOrCreates ==
    [][ev'.kind = "list" =>
        /\ ChatStates'[ev'.chat] # NoState
        /\ ChatStates[ev'.chat] # NoState => ChatStates'[ev'.chat] = ChatStates[ev'.chat]
        /\ ChatStates[ev'.chat] = NoState =>
              ChatStates'[ev'.chat] = [Topic |-> TopicBasket, LastActivity |-> now]]_vars

\* C7, its case: the list command on a session last active minutes ago.
C7_Witness ==
    /\ ev.kind = "list"
    /\ ev.existed
    /\ ChatStates[ev.chat].Topic = TopicTasks
    /\ ChatStates[ev.chat].LastActivity < now

\* C8: resetToMenu (the start command, the menu command, the menu button)
\* leaves the registry as setTopic(chat, basket) would from the same state.
C8_ResetIsSetTopicBasket ==
    [][ev'.kind \in {"start", "menu", "menubtn"} =>
        ChatStates' = setTopic(ChatStates, ev'.chat, TopicBasket, now)]_vars

\* C8, its case: the menu button on an existing session with another topic
\* before, last active earlier.
C8_Witness ==
    /\ ev.kind = "menubtn"
    /\ ev.existed
    /\ now > SessionStart
    /\ ChatStates[ev.chat] = [Topic |-> TopicBasket, LastActivity |-> now]

\* C9 as claimed: when free-text capture or the list command reads the topic
\* of a session whose TTL has run out, the topic it uses is the basket
\* (inbox) and the read refreshes LastActivity.
C9_Original ==
    (ev.kind \in {"text", "text_error", "list"} /\ ev.expired) =>
        /\ ev.topic = TopicBasket
        /\ ChatStates[ev.chat].LastActivity = now

-----------------------------------------------------------------------------
(* The TTL scenario, under SpecScenario *)

\* the row a free-text step has just stored
NewRow == CHOOSE r \in items' : r.ID = nextID

InTasksList(r) ==
    \E i \in 1 .. Len(ListActive(items', r.ChatID, TopicTasks)) :
        ListActive(items', r.ChatID, TopicTasks)[i] = r

\* C5 as claimed: tasks set at t=0, a text at t=9 stored under tasks, then a
\* text at t=11 is stored under the basket (inbox) and is not in the list of
\* tasks.
C5_Original ==
    [][ev'.kind = "text" =>
        /\ (now = SessionStart + TTL - 1
              /\ ChatStates[ev'.chat] = [Topic |-> TopicTasks, LastActivity |-> SessionStart])
           => NewRow.Topic = TopicTasks
        /\ (now = SessionStart + TTL + 1
              /\ ChatStates[ev'.chat] =
                    [Topic |-> TopicTasks, LastActivity |-> SessionStart + TTL - 1]
              /\ \E r \in items : r.ID = nextID - 1 /\ r.Topic = TopicTasks)
           => (NewRow.Topic = TopicBasket /\ ~InTasksList(NewRow))]_vars

\* C5 as amended: tasks set at t=0; a text at t=9 is stored under tasks; a
\* text at t=11 is stored under the basket (inbox), and is then not in the
\* list of tasks, when nothing touched the session since t=0, and under
\* tasks when a text in between refreshed LastActivity.
C5_TTLScenario ==
    [][ev'.kind = "text" =>
        /\ (now = SessionStart + TTL - 1
              /\ ChatStates[ev'.chat] = [Topic |-> TopicTasks, LastActivity |-> SessionStart])
           => NewRow.Topic = TopicTasks
        /\ (now = SessionStart + TTL + 1 /\ ChatStates[ev'.chat].Topic = TopicTasks)
           => NewRow.Topic = IF ChatStates[ev'.chat].LastActivity = SessionStart
                             THEN TopicBasket ELSE TopicTasks
        /\ InTasksList(NewRow) <=> NewRow.Topic = TopicTasks]_vars

\* C5, its case: at t=11 a text stored under the basket, the session expired.
C5_Witness ==
    /\ ev.kind = "text"
    /\ ev.expired
    /\ now = SessionStart + TTL + 1
    /\ \E r \in items : r.ID = nextID - 1 /\ r.Topic = TopicBasket
    /\ ListActive(items, ev.chat, TopicTasks) = <<>>

-----------------------------------------------------------------------------
(* Failures of the scheduler's actions, under Spec *)

\* the outcomes of the actions the last step ran
FiredOutcomes == {ev.fired[i].outcome : i \in 1 .. Len(ev.fired)}

\* the kinds of the messages a scheduler action sends after its store call
StoreMessageKinds == {"reminder", "wiped"}

\* C11 as claimed: a store error in a trigger's action aborts the action,
\* leaves the loop running, and leaves the trigger not marked as fired for
\* that date.
C11_Original ==
    [][ev'.kind = "poll" =>
        \A i \in 1 .. Len(ev'.fired) :
            ev'.fired[i].outcome = "storeerr" =>
                /\ items' = items
                /\ lastFired'[ev'.fired[i].key] # Today(now)]_vars

\* C11 as amended: a store error in a trigger's action aborts the action (no
\* row changes, no reminder and no wipe notice is sent) and leaves the loop
\* polling, but the trigger is marked as fired for that date: the record was
\* written before the action ran.
C11_StoreErrorAborts ==
    /\ [][ev'.kind = "poll" =>
            \A i \in 1 .. Len(ev'.fired) :
                ev'.fired[i].outcome = "storeerr" =>
                    /\ items' = items
                    /\ \A j \in 1 .. Len(sent') : sent'[j].kind \notin StoreMessageKinds
                    /\ lastFired'[ev'.fired[i].key] = Today(now)]_vars
    /\ []((ev.kind = "poll" /\ "storeerr" \in FiredOutcomes) => ENABLED Poll)

\* C11, its case: the wipe failed on a store error while a reminder was in
\* the store; the reminder is still there and the wipe is marked as fired.
C11_Witness ==
    /\ ev.kind = "poll"
    /\ \E i \in 1 .. Len(ev.fired) :
          ev.fired[i] = [key |-> WipeKey, outcome |-> "storeerr"]
    /\ lastFired[WipeKey] = Today(now)
    /\ \E r \in items : r.Topic = TopicReminders

\* C12: a poll runs only the actions of the keys whose minute is the
\* current time-of-day, so once the clock is past a key's minute on a date
\* with no firing counted for that date, none is ever counted: a later poll
\* does not fire the key late.
C12_MissedMinuteNeverFiresLate ==
    /\ [][ev'.kind = "poll" =>
            \A i \in 1 .. Len(ev'.fired) : ev'.fired[i].key[2] = HHMM(now)]_vars
    /\ [][\A k \in Keys, d \in Dates :
            (now > d * MinutesPerDay + k[2] /\ fireLog[<<k, d>>] = 0) =>
                (fireLog'[<<k, d>>] = 0 /\ lastFired'[k] # d)]_vars

\* C12, its case: the clock went from 03:00 past 08:00 unpolled; the poll at
\* 08:01 runs nothing, and the morning digest has not fired that date.
C12_Witness ==
    /\ ev.kind = "poll"
    /\ ev.fired = <<>>
    /\ now = morningTime + 1
    /\ fireLog[<<MorningKey, 0>>] = 0
    /\ lastFired[MorningKey] = NoDate

-----------------------------------------------------------------------------
(* The reminder broadcast and the nightly wipe, under SpecReminders *)

IsReminderMessage(msg) == msg.kind = "reminder"

\* the active reminders of a chat in the rows its
RemindersOf(its, chatID) == {r \in its : r.ChatID = chatID /\ r.Topic = TopicReminders}

\* the scheduler actions the last step is to run include a reminder broadcast
\* that found its target chat and listed the reminders
BroadcastRan(fired) ==
    \E i \in 1 .. Len(fired) :
        fired[i].key[1] = "reminders" /\ fired[i].outcome \in {"ok", "senderr"}

\* C13: a reminder broadcast that finds its target chat and lists its
\* reminders hands the transport exactly one message per active reminder of
\* that chat, each to that chat with the item's id in its done:<id> button,
\* the ids all different, and no reminder message when there is no reminder.
C13_OneMessagePerReminder ==
    [][(ev'.kind = "poll" /\ BroadcastRan(ev'.fired)) =>
        LET rem == SelectSeq(sent', IsReminderMessage)
            due == RemindersOf(items, targetChatID.n)
        IN /\ Len(rem) = Cardinality(due)
           /\ {rem[i].id : i \in 1 .. Len(rem)} = {r.ID : r \in due}
           /\ \A i \in 1 .. Len(rem) :
                 /\ rem[i].chat = targetChatID.n
                 /\ \E r \in due : rem[i].id = r.ID /\ rem[i].body = <<r.Text>>
                 /\ ParseInt(Tail(singleReminderKeyboard(rem[i].id))).n = rem[i].id
           /\ \A i \in 1 .. Len(sent') : sent'[i].kind \in {"digest", "reminder"}]_vars

\* C13, its case: a broadcast with two reminders in the store sent two
\* messages with different ids.
C13_Witness ==
    /\ ev.kind = "poll"
    /\ BroadcastRan(ev.fired)
    /\ Cardinality(RemindersOf(items, 7)) = 2
    /\ Len(SelectSeq(sent, IsReminderMessage)) = 2
    /\ SelectSeq(sent, IsReminderMessage)[1].id # SelectSeq(sent, IsReminderMessage)[2].id

\* the scheduler actions the last step is to run include a wipe that found
\* its target chat and whose delete succeeded
WipeRan(fired) ==
    \E i \in 1 .. Len(fired) :
        fired[i].key = WipeKey /\ fired[i].outcome \in {"ok", "senderr"}

\* C14: a wipe that finds its target chat and whose delete succeeds removes
\* every reminder of that chat and no other row; a poll on a date whose wipe
\* already ran does not run it again and removes no reminder; so a reminder
\* leaves the store only in the wipe of a date not yet wiped or when its
\* done button is pressed.
C14_WipeOncePerDate ==
    /\ [][(ev'.kind = "poll" /\ WipeRan(ev'.fired)) =>
            /\ RemindersOf(items', targetChatID.n) = {}
            /\ items' = items \ RemindersOf(items, targetChatID.n)]_vars
    /\ [][(ev'.kind = "poll" /\ fireLog[<<WipeKey, Today(now)>>] >= 1) =>
            /\ \A i \in 1 .. Len(ev'.fired) : ev'.fired[i].key # WipeKey
            /\ items' = items]_vars
    /\ [][\A r \in items :
            (r.Topic = TopicReminders /\ r \notin items') =>
                \/ ev'.kind = "done"
                \/ /\ ev'.kind = "poll"
                   /\ WipeRan(ev'.fired)
                   /\ fireLog[<<WipeKey, Today(now)>>] = 0]_vars

\* C14, its case: after the wipe of the date a reminder was added; the poll
\* at 08:00 broadcast it and did not wipe it.
C14_Witness ==
    /\ ev.kind = "poll"
    /\ now = morningTime
    /\ fireLog[<<WipeKey, 0>>] = 1
    /\ BroadcastRan(ev.fired)
    /\ RemindersOf(items, 7) = {[ID |-> 2, ChatID |-> 7, Topic |-> TopicReminders,
                                 Text |-> <<"Milk">>]}
    /\ \E i \in 1 .. Len(sent) : sent[i].kind = "reminder" /\ sent[i].id = 2

-----------------------------------------------------------------------------
(* The target chat, under SpecTarget *)

\* neither CHAT_ID nor the persisted chat_id gives a chat id
NoTargetChat ==
    /\ ~parseInt64(TrimSpace(envChatID)).ok
    /\ kv = NoKV \/ ~parseInt64(TrimSpace(kv)).ok

\* C15: a poll while no target chat is resolvable sends nothing and changes
\* no row, whichever of the three actions it runs, and records the date of
\* each; a poll runs the action of no key whose record holds today's date,
\* so the action is not run again that date once a target chat is known.
C15_NoTargetNoOp ==
    /\ [][(ev'.kind = "poll" /\ NoTargetChat) =>
            /\ sent' = <<>>
            /\ items' = items
            /\ \A i \in 1 .. Len(ev'.fired) :
                  /\ ev'.fired[i].outcome = "nochat"
                  /\ lastFired'[ev'.fired[i].key] = Today(now)]_vars
    /\ [][ev'.kind = "poll" =>
            \A k \in Keys :
                lastFired[k] = Today(now) =>
                    \A i \in 1 .. Len(ev'.fired) : ev'.fired[i].key # k]_vars

\* C15, its case: at 08:00 with no target chat the digest and the broadcast
\* ran and sent nothing, after the wipe had done the same at 03:00.
C15_Witness ==
    /\ ev.kind = "poll"
    /\ NoTargetChat
    /\ ev.fired = <<[key |-> MorningKey, outcome |-> "nochat"],
                    [key |-> ReminderKey(morningTime), outcome |-> "nochat"]>>
    /\ lastFired[WipeKey] = Today(now)
    /\ sent = <<>>

\* the chat id CHAT_ID configures: [n, ok]
ConfiguredChat == parseInt64(TrimSpace(envChatID))

\* the branches of handleMessage and handleCallback
InboundKinds ==
    {"start", "menu", "list", "unknown", "notext", "menubtn", "topic", "blank",
     "text_error", "text", "done", "callback"}

\* C16 as claimed: the target chat is the chat id CHAT_ID configures whenever
\* it configures one, and inbound events then do not change it; otherwise,
\* after an inbound message (one whose text was stored: the store works) the
\* target chat read back from the persisted setting is the chat of that
\* message.
C16_Original ==
    /\ [](ConfiguredChat.ok => targetChatID = ConfiguredChat)
    /\ [][(ConfiguredChat.ok /\ ev'.kind \in InboundKinds) =>
            (targetChatID' = targetChatID /\ kv' = kv)]_vars
    /\ [][(~ConfiguredChat.ok /\ ev'.kind = "text") =>
            targetChatID' = [n |-> ev'.chat, ok |-> TRUE]]_vars

-----------------------------------------------------------------------------
(* The morning digest, under Spec *)

IsDigestMessage(msg) == msg.kind = "digest"

\* the scheduler actions the last step is to run include a morning digest
\* that found its target chat
DigestRan(fired) ==
    \E i \in 1 .. Len(fired) : fired[i].key = MorningKey /\ fired[i].outcome # "nochat"

\* C17: a morning digest that finds its target chat hands the transport
\* exactly one message, to that chat: the agenda when the calendar answers,
\* a visible error text in its place when the calendar fails; it changes no
\* row.
C17_DigestAlwaysSent ==
    /\ [](targetChatID.ok =>
            \A calOK \in BOOLEAN, sendOK \in BOOLEAN :
                LET r == sendMorningDigest(items, calOK, sendOK) IN
                /\ Len(r.out) = 1
                /\ r.out[1].kind = "digest"
                /\ r.out[1].chat = targetChatID.n
                /\ r.out[1].body = IF calOK THEN <<"agenda">> ELSE <<"calendar_error">>
                /\ r.its = items)
    /\ [][(ev'.kind = "poll" /\ DigestRan(ev'.fired)) =>
            LET dig == SelectSeq(sent', IsDigestMessage) IN
            /\ Len(dig) = 1
            /\ dig[1].chat = targetChatID.n
            /\ dig[1].body \in {<<"agenda">>, <<"calendar_error">>}]_vars

\* C17, its case: the digest ran while the calendar failed; one message with
\* the error text went out.
C17_Witness ==
    /\ ev.kind = "poll"
    /\ DigestRan(ev.fired)
    /\ Len(SelectSeq(sent, IsDigestMessage)) = 1
    /\ SelectSeq(sent, IsDigestMessage)[1].body = <<"calendar_error">>

-----------------------------------------------------------------------------
(* Dispatch of inbound texts, under SpecSession *)

\* C18: a text that is no command and no label and is not blank touches the
\* session (the registry is left as touchState leaves it); when the store
\* takes the row, exactly one row is added, for that chat, with the next id,
\* the trimmed text and the topic touchState left, and the one message sent
\* is the acknowledgment naming that same topic.
C18_TextStoredUnderTouchedTopic ==
    /\ [][ev'.kind \in {"text", "text_error"} =>
            ChatStates' = touchState(ChatStates, ev'.chat, now)]_vars
    /\ [][ev'.kind = "text" =>
            /\ items \subseteq items'
            /\ Cardinality(items' \ items) = 1
            /\ \A r \in items' \ items :
                  /\ r.ID = nextID
                  /\ r.ChatID = ev'.chat
                  /\ r.Topic = touchState(ChatStates, ev'.chat, now)[ev'.chat].Topic
                  /\ r.Text # <<>> /\ TrimSpace(r.Text) = r.Text
                  /\ sent' = <<Note(ev'.chat, "added", r.Topic)>>
            /\ nextID' = nextID + 1]_vars

\* C18, its case: a text sent after the session's TTL ran out, with tasks
\* the topic before: the row and the acknowledgment both name the basket.
C18_Witness ==
    /\ ev.kind = "text"
    /\ ev.expired
    /\ held[ev.chat] = NoSet
    /\ sent = <<Note(ev.chat, "added", TopicBasket)>>
    /\ \E r \in items :
          r.ID = nextID - 1 /\ r.ChatID = ev.chat /\ r.Topic = TopicBasket
    /\ \E r \in items : r.Topic = TopicTasks

\* C19: a message whose text is empty or only blanks leaves the rows of the
\* item store, and the id counter, as they were.
C19_BlankTextWritesNoItem ==
    [][ev'.kind \in {"notext", "blank"} => (items' = items /\ nextID' = nextID)]_vars

\* C19, its case: a text of blanks arrived while the store held a row; the
\* row is still the only one and nothing was sent.
C19_Witness ==
    /\ ev.kind = "blank"
    /\ sent = <<>>
    /\ Cardinality(items) = 1
    /\ nextID = 2
    /\ ChatStates[ev.chat].LastActivity = now

\* the messages that list the rows list of a topic: one message per row
\* with its done:<id> button for the reminders (a notice when there is
\* none), one message with all the texts for any other topic
Listing(chatID, topic, list) ==
    IF topic = TopicReminders
    THEN IF list = <<>> THEN <<Note(chatID, "empty", "")>>
         ELSE [i \in 1 .. Len(list) |->
                 [chat |-> chatID, kind |-> "reminder", topic |-> TopicReminders,
                  id |-> list[i].ID, body |-> <<list[i].Text>>]]
    ELSE <<[chat |-> chatID, kind |-> "list", topic |-> topic, id |-> 0,
            body |-> [i \in 1 .. Len(list) |-> list[i].Text]]>>

\* the rows of a chat under a topic, by ascending id
RowsInOrder(its, chatID, topic) ==
    LET S == {r \in its : r.ChatID = chatID /\ r.Topic = topic}
    IN CHOOSE q \in [1 .. Cardinality(S) -> S] :
           \A i, j \in 1 .. Cardinality(S) : i < j => q[i].ID < q[j].ID

\* C20: a text that is a topic label, in any case, leaves the registry as
\* setTopic with that topic leaves it, adds and removes no row, and, unless
\* the listing fails, announces the topic and then lists the rows of that
\* topic: one message per row with its done:<id> button for the reminders,
\* one message with all the texts for any other topic.
C20_LabelSetsTopicThenLists ==
    [][ev'.kind = "topic" =>
        /\ ev'.topic \in Topics
        /\ ChatStates' = setTopic(ChatStates, ev'.chat, ev'.topic, now)
        /\ items' = items /\ nextID' = nextID
        /\ \/ sent' = <<Note(ev'.chat, "mode_list_error", ev'.topic)>>
           \/ sent' = <<Note(ev'.chat, "mode", ev'.topic)>>
                         \o Listing(ev'.chat, ev'.topic,
                                    RowsInOrder(items, ev'.chat, ev'.topic))]_vars

\* C20, its case: the label of the reminders, in capitals, while two
\* reminders were stored: the announcement and two messages, one per
\* reminder.
C20_Witness ==
    /\ ev.kind = "topic"
    /\ ev.topic = TopicReminders
    /\ ChatStates[ev.chat].Topic = TopicReminders
    /\ Len(sent) = 3
    /\ sent[2].kind = "reminder" /\ sent[2].id = 1
    /\ sent[3].kind = "reminder" /\ sent[3].id = 2

-----------------------------------------------------------------------------
(* Completion buttons, under SpecCompletion *)

\* the three messages that answer a done button: the callback answer, the
\* edited text, the removed keyboard
DoneAnswers(chatID) ==
    <<Note(chatID, "answer_deleted", ""), Note(chatID, "edit_deleted", ""),
      Note(chatID, "edit_markup", "")>>

\* the row a done button names in the rows its: its data after "done:"
\* parses to the id of a row of the chat it was pressed in
NamesRow(its, cq) ==
    /\ ParseInt(Tail(TrimSpace(cq.Data))).ok
    /\ \E r \in its : r.ChatID = cq.Chat /\ r.ID = ParseInt(Tail(TrimSpace(cq.Data))).n

\* C21: a done button that names no row of its chat (the row was completed
\* or wiped, never existed, or the id is no number) leaves the rows as they
\* are and is answered like any other, also when the store fails; deleting
\* a row twice leaves the rows that deleting it once leaves; and every done
\* step is answered with the same three messages and leaves the sessions
\* and the id counter alone.
C21_CompletionIdempotent ==
    /\ [](\A cq \in CompletionCallbacks, dbOK \in BOOLEAN :
            Head(TrimSpace(cq.Data)) = "done:" =>
                /\ ~NamesRow(items, cq) => handleCallback(cq, dbOK).its = items
                /\ handleCallback(cq, dbOK).out = DoneAnswers(cq.Chat)
                /\ ~NamesRow(handleCallback(cq, dbOK).its, cq) \/ ~dbOK)
    /\ [](\A c \in Chats, id \in 0 .. nextID :
            DeleteItem(DeleteItem(items, c, id), c, id) = DeleteItem(items, c, id))
    /\ [][ev'.kind = "done" =>
            /\ sent' = DoneAnswers(ev'.chat)
            /\ items' \subseteq items
            /\ Cardinality(items \ items') <= 1
            /\ ChatStates' = ChatStates /\ nextID' = nextID]_vars

\* C21, its case: a done button pressed when no row was ever stored; it was
\* answered and the store is still empty.
C21_Witness ==
    /\ ev.kind = "done"
    /\ nextID = 1
    /\ items = {}
    /\ sent = DoneAnswers(ev.chat)

-----------------------------------------------------------------------------
(* Stored texts, under SpecSession *)

\* the messages whose text handleMessage stores: no command, no label, not
\* blank
FreeTexts == {m \in SessionMessages : handleMessage(m, TRUE).kind = "text"}

\* C22 as claimed: when a step is the capture of a free text m, the row it
\* adds is in the list of its chat and topic with Text equal to the text of
\* m as it came in, blanks at its ends included.
C22_Original ==
    [][\A m \in FreeTexts :
        (ev'.kind = "text" /\ ev'.chat = m.Chat
            /\ items' = handleMessage(m, TRUE).its /\ sent' = handleMessage(m, TRUE).out) =>
        \E i \in 1 .. Len(ListActive(items', m.Chat, ev'.topic)) :
            /\ ListActive(items', m.Chat, ev'.topic)[i].ID = nextID
            /\ ListActive(items', m.Chat, ev'.topic)[i].Text = m.Text]_vars

-----------------------------------------------------------------------------
(* The topic of a session, under SpecSession *)

\* the chats that have a session in the registry
Sessions == {c \in Chats : ChatStates[c] # NoState}

\* C26: in every reachable state every session of the registry has one of
\* the four topics basket (the inbox), tasks, reminders, shopping; none has
\* the empty topic of a fresh ChatState{} or any other value, whatever
\* commands, labels, free texts and callbacks came before
C26_TopicIsOneOfFour ==
    \A c \in Sessions :
        ChatStates[c].Topic \in {TopicBasket, TopicTasks, TopicReminders, TopicShopping}

\* /start has just created the session of a chat that had none: resetToMenu
\* put an empty ChatState into the registry and gave it the basket topic
C26_Witness ==
    /\ ev.kind = "start"
    /\ ~ev.existed
    /\ 7 \in Sessions
    /\ ChatStates[7].Topic = TopicBasket

-----------------------------------------------------------------------------
(* The life of a row, under SpecCompletion *)

\* the rows a step removes from the store
Removed == items \ items'

\* C27: a row never changes its id, chat, topic or text: a step leaves each
\* row as it is or removes it, and a row that enters the store is the one a
\* free text of its chat created, under the next id.  A row leaves the store
\* only by a done button pressed in its own chat or, a reminder of the
\* target chat, by the nightly wipe.  Ids are never given twice, so a row
\* once removed never comes back.
C27_RowsOnlyLeave ==
    /\ [](\A r \in items : r.ID < nextID)
    /\ [](\A r, q \in items : r.ID = q.ID => r = q)
    /\ [][nextID' >= nextID]_vars
    /\ [][\A r \in items' :
            \/ r \in items
            \/ /\ r.ID = nextID
               /\ nextID' = nextID + 1
               /\ ev'.kind = "text"
               /\ r.ChatID = ev'.chat]_vars
    /\ [][\A r \in Removed :
            \/ /\ ev'.kind = "done"
               /\ r.ChatID = ev'.chat
               /\ Removed = {r}
            \/ /\ ev'.kind = "poll"
               /\ WipeRan(ev'.fired)
               /\ r.Topic = TopicReminders
               /\ r.ChatID = targetChatID.n]_vars

\* C27, its case: two rows were created; the done button of the second was
\* pressed in its chat, and the first is in the store as it was written
C27_Witness ==
    /\ ev.kind = "done"
    /\ ev.chat = -12
    /\ nextID = 3
    /\ items = {[ID |-> 1, ChatID |-> 7, Topic |-> TopicBasket, Text |-> <<"Milk">>]}

-----------------------------------------------------------------------------
(* A failed write, under SpecSession *)

\* the step before the last was a free text whose AddItem failed
AfterWriteError == ev.kind = "text_error"

\* C28: when AddItem fails for a free text, the store keeps its rows and
\* its id counter, and the chat gets the one message "write error" and no
\* acknowledgment.  The loop goes on: the next message is handled, and a
\* free text that follows is stored under the id the failed one did not
\* take and is acknowledged.
C28_FailedWriteAddsNothing ==
    /\ [][ev'.kind = "text_error" =>
            /\ items' = items
            /\ nextID' = nextID
            /\ sent' = <<Note(ev'.chat, "write_error", "")>>]_vars
    /\ [](AfterWriteError => ENABLED OnMessage(SessionMessages, MaxItems))
    /\ [][(AfterWriteError /\ ev'.kind = "text") =>
            /\ \E r \in items' : r.ID = nextID /\ r.ChatID = ev'.chat /\ r.Topic = ev'.topic
            /\ Cardinality(items') = Cardinality(items) + 1
            /\ sent' = <<Note(ev'.chat, "added", ev'.topic)>>]_vars

\* C28, its case: the first free text of the chat failed to be written
C28_Witness ==
    /\ AfterWriteError
    /\ items = {}
    /\ nextID = 1
    /\ sent = <<Note(7, "write_error", "")>>

-----------------------------------------------------------------------------
(* Done buttons of another chat, under SpecCompletion *)

\* the done buttons pressed in a chat that carry the id of a row of another
ForeignDone(its) ==
    {cq \in CompletionCallbacks :
        /\ Head(TrimSpace(cq.Data)) = "done:"
        /\ ParseInt(Tail(TrimSpace(cq.Data))).ok
        /\ \E r \in its : r.ID = ParseInt(Tail(TrimSpace(cq.Data))).n /\ r.ChatID # cq.Chat}

\* C29: a done button pressed in one chat with the id of a row of another
\* chat removes and changes nothing: the delete is scoped to the chat of the
\* callback.  A done step leaves every row of every other chat in the store.
C29_DeleteScopedToChat ==
    /\ [](\A cq \in ForeignDone(items), dbOK \in BOOLEAN :
            handleCallback(cq, dbOK).its = items)
    /\ [][ev'.kind = "done" =>
            \A r \in items : r.ChatID # ev'.chat => r \in items']_vars

\* C29, its case: chat 7 owns row 1, and a done button has just been pressed
\* in chat -12, where the button done:1 names that row
C29_Witness ==
    /\ ev.kind = "done"
    /\ ev.chat = -12
    /\ nextID = 2
    /\ \E r \in items : r.ID = 1 /\ r.ChatID = 7
    /\ [Chat |-> -12, Data |-> singleReminderKeyboard(1)] \in ForeignDone(items)

-----------------------------------------------------------------------------
(* The frame of the nightly wipe, under SpecCompletion: CHAT_ID is unset,   *)
(* so the target chat is the chat whose message came last.                  *)

\* the rows the wipe may not touch when chat tc is its target
OutsideWipe(its, tc) == {r \in its : r.Topic # TopicReminders \/ r.ChatID # tc}

\* C30: a poll, whichever actions it runs, leaves in the store every row of
\* a topic other than reminders and every row of a chat other than the
\* target chat the poll resolves, the reminders of other chats included; the
\* rows a wipe removes are reminders of that target chat, all of them.
C30_WipeFrame ==
    /\ [][ev'.kind = "poll" =>
            /\ OutsideWipe(items, targetChatID.n) \subseteq items'
            /\ items' \subseteq items
            /\ ~WipeRan(ev'.fired) => items' = items]_vars
    /\ [][(ev'.kind = "poll" /\ WipeRan(ev'.fired)) =>
            /\ targetChatID.ok
            /\ items' = OutsideWipe(items, targetChatID.n)
            /\ \A r \in Removed : r.Topic = TopicReminders /\ r.ChatID = targetChatID.n]_vars
    /\ [](\A c \in Chats :
            /\ OutsideWipe(DeleteAllReminders(items, c), c) = OutsideWipe(items, c)
            /\ DeleteAllReminders(items, c) = OutsideWipe(items, c))

\* C30, its case: both chats had a reminder, chat 7 wrote last; the wipe has
\* run for chat 7 and the reminder of chat -12 is still in the store
C30_Witness ==
    /\ ev.kind = "poll"
    /\ WipeRan(ev.fired)
    /\ targetChatID.n = 7
    /\ nextID = 3
    /\ items = {[ID |-> 1, ChatID |-> -12, Topic |-> TopicReminders, Text |-> <<"Milk">>]}
    /\ sent = <<Note(7, "wiped", TopicReminders)>>

-----------------------------------------------------------------------------
(* The mutex, under SpecDispatch *)

\* the step is one of goroutine g
StepOf(g) == pc'[g] # pc[g]

\* C23: a goroutine that is at a store or transport call (ensureChatID, or
\* the list, add, delete, send, answer and edit calls of its handler) does
\* not hold StateMu; whoever holds StateMu is inside one of the four
\* registry operations, between its Lock and its deferred Unlock; the
\* scheduler goroutine never holds it.  A step of App.run that writes to
\* the store or hands messages to the transport is taken with the mutex
\* free, and by then the registry is what the whole handler leaves.
C23_NoIOUnderLock ==
    /\ [](\A g \in Goroutines : pc[g].at \in IOSteps => StateMu # g)
    /\ [](\A g \in Goroutines : StateMu = g => pc[g].at \in InsideSteps)
    /\ [](StateMu # "loop")
    /\ [][(StepOf("run") /\ <<sent, items, nextID, kv>>' # <<sent, items, nextID, kv>>) =>
            StateMu = NoHolder /\ StateMu' = NoHolder]_vars
    /\ [](\A dbOK \in BOOLEAN :
            (pc["run"].at = "io" /\ pc["run"].upd.kind = "message") =>
                handleMessage(pc["run"].upd.msg, dbOK).cs = ChatStates)

\* C23, its case: touchState has returned to the handler of a free text,
\* which is at its AddItem and send calls, and the mutex is free
C23_Witness ==
    /\ pc["run"].at = "io"
    /\ pc["run"].call.op = "touchState"
    /\ Len(regLog) = 1
    /\ regLog[1].by = "run"
    /\ StateMu = NoHolder

-----------------------------------------------------------------------------
(* The registry under concurrent calls, under SpecRegistry *)

\* the goroutines inside a registry operation
Inside == {g \in Goroutines : pc[g].at \in InsideSteps}

\* C24: at most one execution context is inside a registry operation, the
\* one that holds StateMu.  Whenever the mutex is free, the registry is what
\* the calls that returned leave when run one after another, whole, in the
\* order in which they returned: no write of a call is lost.  A session,
\* once in the registry, stays, and a call that finds one creates none.
C24_RegistrySerial ==
    /\ [](Cardinality(Inside) <= 1)
    /\ [](\A g \in Goroutines : g \in Inside <=> StateMu = g)
    /\ [](StateMu = NoHolder => ChatStates = Replay([c \in Chats |-> NoState], regLog))
    /\ [][\A c \in Chats : ChatStates[c] # NoState => ChatStates'[c] # NoState]_vars
    /\ [][\A g \in Goroutines :
            (pc[g].at = "load" /\ StepOf(g) /\ ChatStates[pc[g].call.chat] # NoState) =>
                ChatStates' = ChatStates]_vars

\* C24, its case: a call of "other" has returned, "run" is inside an
\* operation, before its write of LastActivity, and "other" waits at Lock
C24_Witness ==
    /\ StateMu = "run"
    /\ pc["run"].at = "activity"
    /\ pc["other"].at = "lock"
    /\ Len(regLog) = 1
    /\ regLog[1].by = "other"

-----------------------------------------------------------------------------
(* Shutdown, under SpecShutdown *)

\* a handler of App.run is running
HandlerRuns == pc["run"].at \notin {"select", "returned"}

\* C25: App.run returns only at its select and only when the context is
\* cancelled, so never out of a running handler; a handler that runs when
\* the context is cancelled goes on to its end; once App.run has returned it
\* takes no update and changes neither registry nor store; once
\* Scheduler.loop has returned it runs no trigger.  After the context is
\* cancelled both loops return in the end.
C25_CooperativeShutdown ==
    /\ [][\A g \in {"run", "loop"} :
            (pc'[g].at = "returned" /\ pc[g].at # "returned") =>
                ctxDone /\ pc[g].at = "select"]_vars
    /\ [][pc["run"].at = "returned" =>
            /\ pc'["run"] = pc["run"]
            /\ <<ChatStates, nextID, kv, held>>' = <<ChatStates, nextID, kv, held>>]_vars
    /\ [][pc["loop"].at = "returned" =>
            /\ pc'["loop"] = pc["loop"]
            /\ <<lastFired, fireLog>>' = <<lastFired, fireLog>>
            /\ pc["run"].at = "returned" => items' = items]_vars
    /\ (ctxDone /\ HandlerRuns) ~> (pc["run"].at = "select")
    /\ ctxDone ~> (pc["run"].at = "returned" /\ pc["loop"].at = "returned")

\* C25, its case: the context is cancelled and Scheduler.loop has returned
\* while a handler of App.run is inside touchState, holding the mutex
C25_Witness ==
    /\ ctxDone
    /\ pc["loop"].at = "returned"
    /\ pc["run"].at = "activity"
    /\ pc["run"].call.op = "touchState"
    /\ StateMu = "run"

-----------------------------------------------------------------------------
(* The order of a listing, under SpecCompletion *)

\* the rows ListActive is to return for a chat and a topic, "" for every topic
ActiveOf(its, chatID, topic) ==
    {r \in its : r.ChatID = chatID /\ (topic = "" \/ r.Topic = topic)}

\* C31: ListActive returns the rows of the chat and the topic, each once and
\* no other, in strictly ascending order of id.  That is the order in which
\* they were added: a row that enters the store has the id of the counter,
\* above the id of every row in the store, and the counter then grows by
\* one; a step that removes rows leaves the counter, so the id of a deleted
\* or wiped row is never given again.
C31_ListInIdOrder ==
    /\ [](\A c \in Chats, t \in Topics \cup {""} :
            LET list == ListActive(items, c, t) IN
            /\ {list[i] : i \in 1 .. Len(list)} = ActiveOf(items, c, t)
            /\ Len(list) = Cardinality(ActiveOf(items, c, t))
            /\ \A i, j \in 1 .. Len(list) : i < j => list[i].ID < list[j].ID)
    /\ [][\A r \in items' \ items :
            /\ r.ID = nextID
            /\ nextID' = nextID + 1
            /\ \A q \in items : q.ID < r.ID]_vars
    /\ [][(items' \ items = {}) => nextID' = nextID]_vars

\* C31, its case: a chat wrote into the basket and then into the reminders;
\* the listing of all its topics has the two rows in that order
C31_Witness ==
    /\ Len(ListActive(items, 7, "")) = 2
    /\ ListActive(items, 7, "")[1].ID = 1
    /\ ListActive(items, 7, "")[1].Topic = TopicBasket
    /\ ListActive(items, 7, "")[2].ID = 2
    /\ ListActive(items, 7, "")[2].Topic = TopicReminders

-----------------------------------------------------------------------------
(* One poll, under Spec *)

\* the triggers in the order in which the loop body tests them
KeyOrder ==
    <<MorningKey>> \o [i \in 1 .. Len(reminderTimes) |-> ReminderKey(reminderTimes[i])]
        \o <<WipeKey>>

\* the place of a key in that order
Rank(k) == CHOOSE i \in 1 .. Len(KeyOrder) : KeyOrder[i] = k

\* C33: a poll runs the action of exactly the keys whose minute is the
\* minute of the one clock reading the poll starts with and whose record
\* does not hold that reading's date, each key by its own record, in the
\* order morning digest, reminder broadcasts, wipe.  So a poll at 08:00 on
\* a date on which neither has fired runs the morning digest and then the
\* 08:00 broadcast, whatever the digest's outcome.
C33_OneSnapshotPerPoll ==
    /\ [][ev'.kind = "poll" =>
            /\ {ev'.fired[i].key : i \in 1 .. Len(ev'.fired)}
                  = {k \in Keys : Due(lastFired, k, HHMM(now), Today(now))}
            /\ \A i, j \in 1 .. Len(ev'.fired) :
                  i < j => Rank(ev'.fired[i].key) < Rank(ev'.fired[j].key)]_vars
    /\ [][(/\ ev'.kind = "poll"
           /\ HHMM(now) = morningTime
           /\ lastFired[MorningKey] # Today(now)
           /\ lastFired[ReminderKey(morningTime)] # Today(now)) =>
                /\ Len(ev'.fired) = 2
                /\ ev'.fired[1].key = MorningKey
                /\ ev'.fired[2].key = ReminderKey(morningTime)
                /\ lastFired'[MorningKey] = Today(now)
                /\ lastFired'[ReminderKey(morningTime)] = Today(now)]_vars

\* C33, its case: the poll at 08:00 ran the digest, which failed to be
\* sent, and then the broadcast
C33_Witness ==
    /\ ev.kind = "poll"
    /\ HHMM(now) = morningTime
    /\ Len(ev.fired) = 2
    /\ ev.fired[1] = [key |-> MorningKey, outcome |-> "senderr"]
    /\ ev.fired[2].key = ReminderKey(morningTime)

-----------------------------------------------------------------------------
(* What touches the registry, under SpecSession *)

\* the branches that call no registry operation: a message without text, an
\* unknown command, a done button, another callback
UntouchedKinds == {"notext", "unknown", "done", "callback"}

\* C34: a text of blanks only stores and sends nothing, and the registry it
\* leaves is the one touchState leaves: a session created with the basket if
\* the chat had none, the basket topic if the TTL had run out, the topic
\* kept if not, and LastActivity at the time of the message.  A message
\* with no text at all, an unknown command, a done button and any other
\* callback leave the registry as it is.
C34_BlankTextTouches ==
    /\ [][ev'.kind = "blank" =>
            /\ items' = items
            /\ nextID' = nextID
            /\ sent' = <<>>
            /\ ChatStates' = touchState(ChatStates, ev'.chat, now)
            /\ ChatStates'[ev'.chat].LastActivity = now
            /\ ChatStates'[ev'.chat].Topic =
                  IF ChatStates[ev'.chat] = NoState
                        \/ now - ChatStates[ev'.chat].LastActivity > TTL
                  THEN TopicBasket ELSE ChatStates[ev'.chat].Topic]_vars
    /\ [][ev'.kind \in UntouchedKinds => ChatStates' = ChatStates]_vars

\* C34, its case: a text of blanks came after the TTL of a session had run
\* out: the session has the basket topic and the time of the message, and
\* the store is empty
C34_Witness ==
    /\ ev.kind = "blank"
    /\ ev.existed
    /\ ev.expired
    /\ ChatStates[7] = [Topic |-> TopicBasket, LastActivity |-> now]
    /\ now = SessionStart + TTL + 1
    /\ items = {}

-----------------------------------------------------------------------------
(* One chat and the other, under SpecCompletion *)

\* the messages of either chat: every command, label and text of the sessions
AnyChatMessages ==
    CommandMessages(Chats, SessionCommands) \cup TextMessages(Chats, SessionTexts)

\* the chats other than c
Others(c) == Chats \ {c}

\* C35: in every reachable state each registry operation called for a chat,
\* and the handler of every message and callback of a chat, leaves the
\* session of every other chat as it is, topic and LastActivity; so does
\* every step of the dispatch.  A row is listed for its own chat only: no
\* listing of a chat, of any topic, holds a row another chat wrote, and the
\* row a free text adds carries the chat of that text.
C35_OtherChatUntouched ==
    /\ [](\A c \in Chats : \A b \in Others(c) :
            /\ getState(ChatStates, c, now)[b] = ChatStates[b]
            /\ touchState(ChatStates, c, now)[b] = ChatStates[b]
            /\ resetToMenu(ChatStates, c, now)[b] = ChatStates[b]
            /\ \A t \in Topics : setTopic(ChatStates, c, t, now)[b] = ChatStates[b])
    /\ [](\A m \in AnyChatMessages, dbOK \in BOOLEAN : \A b \in Others(m.Chat) :
            handleMessage(m, dbOK).cs[b] = ChatStates[b])
    /\ [](\A cq \in CompletionCallbacks, dbOK \in BOOLEAN : \A b \in Others(cq.Chat) :
            handleCallback(cq, dbOK).cs[b] = ChatStates[b])
    /\ [][\A b \in Chats :
            ChatStates'[b] # ChatStates[b] =>
                ev'.chat = b /\ ev'.kind \notin {"poll", "tick"}]_vars
    /\ [](\A b \in Chats, t \in Topics \cup {""} :
            \A i \in 1 .. Len(ListActive(items, b, t)) :
                ListActive(items, b, t)[i].ChatID = b)
    /\ [][\A r \in items' \ items : r.ChatID = ev'.chat /\ ev'.kind = "text"]_vars

\* C35, its case: chat -12 chose the reminders and wrote in the first
\* minute; chat 7 has just written at 08:00: the session of chat -12 is as
\* it was left, and each chat's listing holds its own row only
C35_Witness ==
    /\ ev.kind = "text"
    /\ ev.chat = 7
    /\ now = morningTime
    /\ ChatStates[-12] = [Topic |-> TopicReminders, LastActivity |-> wipeTime]
    /\ ChatStates[7].LastActivity = morningTime
    /\ Len(ListActive(items, 7, "")) = 1
    /\ Len(ListActive(items, -12, "")) = 1
    /\ ListActive(items, -12, "")[1].ID = 1
    /\ ListActive(items, 7, "")[1].ID = 2

-----------------------------------------------------------------------------
(* The older implementation, bot.go, statement by statement where the      *)
(* global map states is read or written.  Its two goroutines are main,     *)
(* which ranges over the updates, and scheduler, started by main with go.  *)
(* The calls of the store and of the transport change none of the          *)
(* variables below; handleCallback reaches no statement on states.         *)

\* time.Time{}: LastActivity of a State that getState has just created; it
\* lies more than TTLMinutes before every instant
ZeroTime == 0 - (TTL + 1)

\* the variables of the implementation in main.go, which bot.go leaves alone
app == <<ChatStates, items, nextID, kv, envChatID, lastFired, fireLog, held, sent, ev,
         conc>>

\* the statements of scheduler that range over states
RangeSteps == {"range reminders", "range digest"}

\* what an insertion into a map does to a range in progress on it in another
\* goroutine: the new entry is produced later, or it is skipped, or the
\* runtime ends the process (concurrent map iteration and map write)
RaceOutcomes == {"produced", "skipped", "fatal"}

\* the index of the reminder time that is the minute t, or 0
scheduleMatch(t) ==
    IF \E i \in 1 .. Len(reminderTimes) : reminderTimes[i] = HHMM(t)
    THEN CHOOSE i \in 1 .. Len(reminderTimes) : reminderTimes[i] = HHMM(t)
    ELSE 0

\* resetTopicIfExpired
resetTopicIfExpired(s, t) ==
    [Topic |-> IF t - s.LastActivity > TTL THEN TopicBasket ELSE s.Topic,
     LastActivity |-> t]

\* main: for update := range updates, a message arrives; handleMessage reads
\* the clock and calls getState
Receive(msgs) ==
    /\ at.main = "updates"
    /\ \E m \in msgs : message' = [Chat |-> m.Chat, Topic |-> m.Topic, At |-> now]
    /\ at' = [at EXCEPT !.main = "lookup"]
    /\ UNCHANGED <<now, app, states, lastRemindersSent, lastCleanupDate, lastDigestDate,
                   schedNow, sleepUntil, iter>>

\* getState: s, ok := states[chatID]
Lookup ==
    /\ at.main = "lookup"
    /\ at' = [at EXCEPT !.main =
                IF states[message.Chat] = NoState THEN "insert" ELSE "handle"]
    /\ UNCHANGED <<now, app, states, lastRemindersSent, lastCleanupDate, lastDigestDate,
                   schedNow, sleepUntil, iter, message>>

\* getState: states[chatID] = &State{Topic: TopicBasket}
Insert ==
    /\ at.main = "insert"
    /\ states' = [states EXCEPT ![message.Chat] =
                    [Topic |-> TopicBasket, LastActivity |-> ZeroTime]]
    /\ IF at.scheduler \in RangeSteps
       THEN \E o \in RaceOutcomes :
                /\ iter' = IF o = "produced" THEN iter \cup {message.Chat} ELSE iter
                /\ at' = IF o = "fatal"
                         THEN [main |-> "fatal", scheduler |-> "fatal"]
                         ELSE [at EXCEPT !.main = "handle"]
       ELSE /\ iter' = iter
            /\ at' = [at EXCEPT !.main = "handle"]
    /\ UNCHANGED <<now, app, lastRemindersSent, lastCleanupDate, lastDigestDate,
                   schedNow, sleepUntil, message>>

\* handleMessage after getState: resetTopicIfExpired, then the topic the
\* command or button sets, if it sets one; the writes go through the pointer
\* s, not through the map
Handle ==
    /\ at.main = "handle"
    /\ states' = [states EXCEPT ![message.Chat] =
                    IF message.Topic = ""
                    THEN resetTopicIfExpired(states[message.Chat], message.At)
                    ELSE [Topic |-> message.Topic, LastActivity |-> message.At]]
    /\ at' = [at EXCEPT !.main = "updates"]
    /\ UNCHANGED <<now, app, lastRemindersSent, lastCleanupDate, lastDigestDate,
                   schedNow, sleepUntil, iter, message>>

\* scheduler: now := time.Now().In(loc), once the sleep is over
ReadNow ==
    /\ at.scheduler = "now"
    /\ now >= sleepUntil
    /\ schedNow' = now
    /\ at' = [at EXCEPT !.scheduler = "reminders"]
    /\ UNCHANGED <<now, app, states, lastRemindersSent, lastCleanupDate, lastDigestDate,
                   sleepUntil, iter, message>>

\* scheduler: the loop over schedule; at a reminder time not yet sent today
\* it starts for chatID := range states
Reminders ==
    /\ at.scheduler = "reminders"
    /\ IF scheduleMatch(schedNow) # 0
          /\ lastRemindersSent[scheduleMatch(schedNow)] # Today(schedNow)
       THEN /\ iter' = {c \in Chats : states[c] # NoState}
            /\ at' = [at EXCEPT !.scheduler = "range reminders"]
       ELSE /\ iter' = iter
            /\ at' = [at EXCEPT !.scheduler = "cleanup"]
    /\ UNCHANGED <<now, app, states, lastRemindersSent, lastCleanupDate, lastDigestDate,
                   schedNow, sleepUntil, message>>

\* scheduler: one round of a range over states, which calls sendReminders or
\* sendCalendarDigest for the key produced; after the last key the date is
\* recorded
Range ==
    /\ at.scheduler \in RangeSteps
    /\ IF iter # {}
       THEN /\ \E c \in iter : iter' = iter \ {c}
            /\ UNCHANGED <<lastRemindersSent, lastDigestDate, sleepUntil, at>>
       ELSE /\ iter' = iter
            /\ IF at.scheduler = "range reminders"
               THEN /\ lastRemindersSent' =
                          [lastRemindersSent EXCEPT ![scheduleMatch(schedNow)] =
                              Today(schedNow)]
                    /\ at' = [at EXCEPT !.scheduler = "cleanup"]
                    /\ UNCHANGED <<lastDigestDate, sleepUntil>>
               ELSE /\ lastDigestDate' = Today(schedNow)
                    /\ sleepUntil' = now + 1
                    /\ at' = [at EXCEPT !.scheduler = "now"]
                    /\ UNCHANGED lastRemindersSent
    /\ UNCHANGED <<now, app, states, lastCleanupDate, schedNow, message>>

\* scheduler: cleanupReminders at DailyCleanupHour:00, once a date
Cleanup ==
    /\ at.scheduler = "cleanup"
    /\ lastCleanupDate' =
          IF HHMM(schedNow) = wipeTime /\ lastCleanupDate # Today(schedNow)
          THEN Today(schedNow) ELSE lastCleanupDate
    /\ at' = [at EXCEPT !.scheduler = "digest"]
    /\ UNCHANGED <<now, app, states, lastRemindersSent, lastDigestDate, schedNow,
                   sleepUntil, iter, message>>

\* scheduler: the morning digest; at its minute, not yet sent today, it
\* starts for chatID := range states; otherwise time.Sleep(time.Minute)
Digest ==
    /\ at.scheduler = "digest"
    /\ IF HHMM(schedNow) = morningTime /\ lastDigestDate # Today(schedNow)
       THEN /\ iter' = {c \in Chats : states[c] # NoState}
            /\ at' = [at EXCEPT !.scheduler = "range digest"]
            /\ UNCHANGED sleepUntil
       ELSE /\ iter' = iter
            /\ sleepUntil' = now + 1
            /\ at' = [at EXCEPT !.scheduler = "now"]
    /\ UNCHANGED <<now, app, states, lastRemindersSent, lastCleanupDate, lastDigestDate,
                   schedNow, message>>

\* the wall clock moves on while the process runs
Pass(instants) ==
    /\ at.main # "fatal"
    /\ \E t \in instants : t > now /\ now' = t
    /\ UNCHANGED <<app, botgo>>

\* the minutes of bot.go's run: the digest and reminder minute and the next
BotGoInstants == {morningTime, morningTime + 1}

\* a free text and a topic button, of either chat
BotGoMessages == [Chat : Chats, Topic : {"", TopicReminders}]

InitBotGo == Start(wipeTime, {<<>>})

NextBotGo ==
    \/ Pass(BotGoInstants)
    \/ Receive(BotGoMessages)
    \/ Lookup
    \/ Insert
    \/ Handle
    \/ ReadNow
    \/ Reminders
    \/ Range
    \/ Cleanup
    \/ Digest

SpecBotGo == InitBotGo /\ [][NextBotGo]_vars

\* C36: in bot.go the map states is accessed by one goroutine only: in no
\* reachable state is scheduler inside a range over states while main is at
\* the statement of getState that creates a session in the map
C36_Original == ~(at.scheduler \in RangeSteps /\ at.main = "insert")

-----------------------------------------------------------------------------
(* The scheduler while its context is not cancelled, when the ticker's     *)
(* polls keep up with the clock: the clock shows every trigger's minute of *)
(* every date, and leaves a minute only after a poll has read it.  CHAT_ID *)
(* is unset, a chat id, or a text that is no number.                       *)

\* every trigger's minute, on every date
TriggerInstants ==
    {d * MinutesPerDay + k[2] : d \in Dates, k \in Keys}

TickUnpaced(instants) ==
    \E t \in instants :
        /\ t > now
        /\ now' = t
        /\ sent' = <<>>
        /\ ev' = Event("tick", 0, "", NoState)
        /\ UNCHANGED <<botgo, ChatStates, items, nextID, kv, envChatID, lastFired, fireLog,
                       held, conc>>

\* the wall clock moves on to the next of the minutes in instants, after the
\* loop body of a poll in the present minute has run to its end
TickPaced(instants) ==
    \E t \in instants :
        /\ ev.kind = "poll"
        /\ t > now
        /\ \A u \in instants : u > now => t <= u
        /\ now' = t
        /\ sent' = <<>>
        /\ ev' = Event("tick", 0, "", NoState)
        /\ UNCHANGED <<botgo, ChatStates, items, nextID, kv, envChatID, lastFired, fireLog,
                       held, conc>>

InitPaced == Start(wipeTime, {<<>>, <<"7">>, <<"x">>})

NextPaced ==
    \/ TickPaced(TriggerInstants)
    \/ Poll

\* the ticker delivers while the context is not cancelled, and time passes
FairnessPaced == WF_vars(Poll) /\ WF_vars(TickPaced(TriggerInstants))

SpecPaced == InitPaced /\ [][NextPaced]_vars /\ FairnessPaced

\* C32: while the loop is not cancelled and a poll reads every minute before
\* the clock leaves it, every trigger fires on every date: its action has
\* eventually run on that date, and it never runs a second time that date
C32_FiresOnEveryDate ==
    /\ <>(\A k \in Keys, d \in Dates : fireLog[<<k, d>>] = 1)
    /\ [](\A k \in Keys, d \in Dates : fireLog[<<k, d>>] <= 1)
    /\ [](~ctxDone)
    /\ [][now' # now => \E k \in Keys : lastFired[k] = Today(now) /\ k[2] = HHMM(now)]_vars

\* C32, its case: at the last trigger minute of the last date every
\* trigger's action has run once on every date
C32_Witness ==
    /\ \A k \in Keys, d \in Dates : fireLog[<<k, d>>] = 1
    /\ \A u \in TriggerInstants : u <= now
    /\ ev.kind = "poll"
    /\ ev.fired # <<>>

====
